---- MODULE Spec2Model ----
(***************************************************************************)
(* Specter Sports Intel: the ensemble voter, the rules engine, the         *)
(* verification (generate / validate / regenerate) loop, the line velocity *)
(* tracker, the fact checker and the Elo model.                            *)
(*                                                                         *)
(* Probabilities are fixed-point integers counted in units of 0.0001, so   *)
(* 0.60 is 6000 and the adjustment -0.05 is -500.  Sums, means and         *)
(* comparisons are exact in this representation; the binary rounding of    *)
(* IEEE doubles is not modelled.  Rounding to 3 decimals (Math.round(x *   *)
(* 1000) / 1000) is modelled as rounding half up to a multiple of 10.      *)
(*                                                                         *)
(* An optional value (T | null, or an optional field) is <<>> when absent  *)
(* and <<v>> when present.                                                 *)
(***************************************************************************)
EXTENDS Integers, Sequences, FiniteSets, TLC

VARIABLES
    voteArgs,       \* the six arguments of one EnsembleVoter.vote call
    voteResult,     \* its EnsembleResult, None before the call returned
    ctx,            \* the GameContext of one RulesEngine.evaluate call
    baseProbability,\* its baseProbability argument
    rulesResult,    \* its RulesResult, None before the call returned
    pc,             \* analyzeWithVerification: position of the async loop
    attempt,        \* its loop counter
    issues,         \* its issues variable (issues of the last failed validation)
    signal,         \* the signal of the current attempt, None before the first
    validation,     \* the ValidationResult of the current attempt
    returned,       \* the value the call resolved to: <<signal>> or None (null)
    trace,          \* history of the call: the generate / validate events so far
    snapshots,      \* the LineSnapshot[] argument of one VelocityTracker.analyze call
    velocityResult, \* its VelocityAnalysis, None before the call returned
    factSignal,     \* the SignalOutput argument of one FactChecker.validate call
    factGame,       \* its GameData argument
    factResult,     \* its ValidationResult, None before the call returned
    eloRatings,     \* the module's rating table, a Map in insertion order
    eloNow,         \* the clock new Date() reads: the number of updateElo calls so far
    eloCall,        \* the last call of predictGame / updateElo and what it returned
    eloFirst        \* the result of predictGame(A, B) when the calls since then are
                    \* updateElo(A, B, true, m) and at most one predictGame(A, B)

VARIABLES
    demoOptions,    \* the DemoOptions argument of one runDemo call
    demoFeed,       \* the game list reconnaissance reads (MOCK_GAMES in the source)
    demoPc,         \* position of runDemo: the phase it is about to run
    demoGames,      \* its games constant, the feed filtered by league
    demoResults,    \* its results array
    demoValidations, \* the validation of each result, in the order of phase 3
    demoPassCount,  \* its passCount variable
    demoSignals,    \* its signals constant
    demoOutput      \* whether match cards and social posts were prepared

VARIABLES
    recentGames,    \* the recentGames argument of one detectScheduleSpot call
    nextGame,       \* its nextGame argument
    scheduleSpot    \* its ScheduleSlot, None before the call returned

VARIABLES
    raceCalls,      \* the arguments of two updateElo calls in flight
    raceTable,      \* the rating table the two calls share
    racePc,         \* position of each call: before its reads, before its writes, returned
    raceChange,     \* the eloChange each call computed from what it read
    raceOverlap     \* whether a call read while the other was between its reads and writes

vars == <<voteArgs, voteResult, ctx, baseProbability, rulesResult,
          pc, attempt, issues, signal, validation, returned, trace,
          snapshots, velocityResult, factSignal, factGame, factResult,
          eloRatings, eloNow, eloCall, eloFirst,
          demoOptions, demoFeed, demoPc, demoGames, demoResults, demoValidations, demoPassCount, demoSignals, demoOutput,
          recentGames, nextGame, scheduleSpot,
          raceCalls, raceTable, racePc, raceChange, raceOverlap>>

voterVars == <<voteArgs, voteResult>>
rulesVars == <<ctx, baseProbability, rulesResult>>
loopVars  == <<pc, attempt, issues, signal, validation, returned, trace>>
velocityVars == <<snapshots, velocityResult>>
factVars == <<factSignal, factGame, factResult>>
eloVars == <<eloRatings, eloNow, eloCall, eloFirst>>
demoVars == <<demoOptions, demoFeed, demoPc, demoGames, demoResults, demoValidations, demoPassCount, demoSignals, demoOutput>>
temporalVars == <<recentGames, nextGame, scheduleSpot>>
raceVars == <<raceCalls, raceTable, racePc, raceChange, raceOverlap>>

None == <<>>
Some(v) == <<v>>

Abs(x) == IF x < 0 THEN -x ELSE x

\* Math.round(x * 1000) / 1000 of the rational num / den (den > 0), in units
\* of 0.0001: Math.round rounds half up (towards +infinity).
Round3(num, den) == ((2 * num + 10 * den) \div (20 * den)) * 10

\* Math.round of the rational num / den (den > 0): the nearest integer, a
\* half rounded up (towards +infinity).
RoundDiv(num, den) == (2 * num + den) \div (2 * den)

(***************************************************************************)
(* EnsembleVoter                                                           *)
(***************************************************************************)

STRONG_BET_THRESHOLD == 6000
HIGH_CONFIDENCE_EDGE == 1500
MEDIUM_CONFIDENCE_EDGE == 800

\* Probabilities passed to vote: in range, on and around the STRONG_BET
\* threshold, on the confidence edges (0.5 +/- 0.08, 0.5 +/- 0.15) and on
\* both sides of them, and one out of range.
ProbValues == {0, 3500, 4200, 5800, 6000, 6200, 6500, 12000}

\* Recommendation strings the three models produce (Bayes: BET/PASS/FADE,
\* Elo: HOME/AWAY/NEUTRAL, Rules: BET/LEAN/PASS/FADE/BLOCKED).
RecValues == {"BET", "HOME", "PASS", "NEUTRAL", "FADE", "AWAY", "LEAN", "BLOCKED"}

BetRecs  == {"BET", "HOME"}
PassRecs == {"PASS", "NEUTRAL"}
FadeRecs == {"FADE", "AWAY"}

\* Variant of getConfidence that takes the signed distance prob - 0.5.
getConfidence_signedEdge(prob) ==
    LET edge == prob - 5000 IN
    IF edge > HIGH_CONFIDENCE_EDGE THEN "high"
    ELSE IF edge > MEDIUM_CONFIDENCE_EDGE THEN "medium"
    ELSE "low"

getConfidence(prob) ==
    LET edge == Abs(prob - 5000) IN
    IF edge > HIGH_CONFIDENCE_EDGE THEN "high"
    ELSE IF edge > MEDIUM_CONFIDENCE_EDGE THEN "medium"
    ELSE "low"

\* Variant of buildVotes that pushes a neutral Bayesian vote when the
\* Bayesian input is absent.
buildVotes_defaultBayes(bayesianProb, bayesianRec, eloProb, eloRec, rulesProb, rulesRec) ==
    (IF bayesianProb # None /\ bayesianRec # None
     THEN << [model |-> "bayes", probability |-> bayesianProb[1],
              recommendation |-> bayesianRec[1],
              confidence |-> getConfidence(bayesianProb[1])] >>
     ELSE << [model |-> "bayes", probability |-> 5000,
              recommendation |-> "PASS",
              confidence |-> getConfidence(5000)] >>)
    \o << [model |-> "elo", probability |-> eloProb,
           recommendation |-> eloRec,
           confidence |-> getConfidence(eloProb)] >>
    \o << [model |-> "rules", probability |-> rulesProb,
           recommendation |-> rulesRec,
           confidence |-> IF rulesRec = "BLOCKED" THEN "high"
                          ELSE getConfidence(rulesProb)] >>

\* votes.push(...) three times; the Bayesian vote only when both of its
\* arguments are non-null.
buildVotes(bayesianProb, bayesianRec, eloProb, eloRec, rulesProb, rulesRec) ==
    (IF bayesianProb # None /\ bayesianRec # None
     THEN << [model |-> "bayes", probability |-> bayesianProb[1],
              recommendation |-> bayesianRec[1],
              confidence |-> getConfidence(bayesianProb[1])] >>
     ELSE << >>)
    \o << [model |-> "elo", probability |-> eloProb,
           recommendation |-> eloRec,
           confidence |-> getConfidence(eloProb)] >>
    \o << [model |-> "rules", probability |-> rulesProb,
           recommendation |-> rulesRec,
           confidence |-> IF rulesRec = "BLOCKED" THEN "high"
                          ELSE getConfidence(rulesProb)] >>

\* Variant of findBlocked that looks at the rules vote only.
findBlocked_rulesOnly(votes) ==
    votes[Len(votes)].recommendation = "BLOCKED"

\* votes.find(v => v.recommendation === 'BLOCKED') is truthy
findBlocked(votes) ==
    \E i \in DOMAIN votes : votes[i].recommendation = "BLOCKED"

\* votes.filter(v => v.recommendation is one of recs).length
countVotes(votes, recs) ==
    Cardinality({i \in DOMAIN votes : votes[i].recommendation \in recs})

\* votes.reduce((sum, v) => sum + v.probability, 0)
RECURSIVE totalProbOf(_)
totalProbOf(votes) ==
    IF votes = << >> THEN 0
    ELSE votes[1].probability + totalProbOf(Tail(votes))

\* Variant of consensusOf that counts agreement on BET only.
consensusOf_betOnly(betVotes, passVotes, fadeVotes) ==
    betVotes >= 2

consensusOf(betVotes, passVotes, fadeVotes) ==
    betVotes >= 2 \/ passVotes >= 2 \/ fadeVotes >= 2

\* Variant of ladder with >= at the STRONG_BET threshold.
ladder_atLeastThreshold(betVotes, passVotes, fadeVotes, totalProb, modelCount) ==
    IF betVotes >= 2 /\ totalProb >= STRONG_BET_THRESHOLD * modelCount
    THEN "STRONG_BET"
    ELSE IF betVotes >= 2 THEN "BET"
    ELSE IF fadeVotes >= 2 THEN "FADE"
    ELSE IF betVotes = 1 /\ passVotes <= 1 THEN "LEAN"
    ELSE "PASS"

\* Variant of ladder in which one bet-vote is enough for BET.
ladder_singleBet(betVotes, passVotes, fadeVotes, totalProb, modelCount) ==
    IF betVotes >= 2 /\ totalProb > STRONG_BET_THRESHOLD * modelCount
    THEN "STRONG_BET"
    ELSE IF betVotes >= 1 THEN "BET"
    ELSE IF fadeVotes >= 2 THEN "FADE"
    ELSE IF betVotes = 1 /\ passVotes <= 1 THEN "LEAN"
    ELSE "PASS"

\* Variant of ladder with the LEAN rung tested before the FADE rung.
ladder_leanBeforeFade(betVotes, passVotes, fadeVotes, totalProb, modelCount) ==
    IF betVotes >= 2 /\ totalProb > STRONG_BET_THRESHOLD * modelCount
    THEN "STRONG_BET"
    ELSE IF betVotes >= 2 THEN "BET"
    ELSE IF betVotes = 1 /\ passVotes <= 1 THEN "LEAN"
    ELSE IF fadeVotes >= 2 THEN "FADE"
    ELSE "PASS"

\* The if / else-if ladder; avgProb > STRONG_BET_THRESHOLD with
\* avgProb = totalProb / modelCount is totalProb > STRONG_BET_THRESHOLD * modelCount.
ladder(betVotes, passVotes, fadeVotes, totalProb, modelCount) ==
    IF betVotes >= 2 /\ totalProb > STRONG_BET_THRESHOLD * modelCount
    THEN "STRONG_BET"
    ELSE IF betVotes >= 2 THEN "BET"
    ELSE IF fadeVotes >= 2 THEN "FADE"
    ELSE IF betVotes = 1 /\ passVotes <= 1 THEN "LEAN"
    ELSE "PASS"

\* The agreement text, kept as its template and the numbers put into it.
agreementOf(rec, betVotes, passVotes, fadeVotes, modelCount) ==
    CASE rec \in {"STRONG_BET", "BET"} -> <<"models agree BET", betVotes, modelCount>>
      [] rec = "FADE" -> <<"models agree FADE", fadeVotes, modelCount>>
      [] rec = "LEAN" -> <<"Split decision", betVotes, passVotes>>
      [] OTHER -> <<"No consensus", betVotes, passVotes, fadeVotes>>

vote(bayesianProb, bayesianRec, eloProb, eloRec, rulesProb, rulesRec) ==
    LET votes == buildVotes(bayesianProb, bayesianRec, eloProb, eloRec,
                            rulesProb, rulesRec)
    IN  IF findBlocked(votes)
        THEN [votes |-> votes,
              consensus |-> TRUE,
              finalProbability |-> rulesProb,
              finalRecommendation |-> "BLOCKED",
              agreement |-> <<"BLOCKED by rules">>]
        ELSE
          LET betVotes   == countVotes(votes, BetRecs)
              passVotes  == countVotes(votes, PassRecs)
              fadeVotes  == countVotes(votes, FadeRecs)
              totalProb  == totalProbOf(votes)
              modelCount == Len(votes)
              finalRecommendation ==
                  ladder(betVotes, passVotes, fadeVotes, totalProb, modelCount)
          IN  [votes |-> votes,
               consensus |-> consensusOf(betVotes, passVotes, fadeVotes),
               finalProbability |-> Round3(totalProb, modelCount),
               finalRecommendation |-> finalRecommendation,
               agreement |-> agreementOf(finalRecommendation, betVotes,
                                         passVotes, fadeVotes, modelCount)]

shouldBet(result) ==
    result.finalRecommendation = "STRONG_BET" \/ result.finalRecommendation = "BET"

VoterArgs ==
    [bayesianProb : {None} \cup {Some(p) : p \in ProbValues},
     bayesianRec  : {None} \cup {Some(r) : r \in RecValues},
     eloProb      : ProbValues,
     eloRec       : RecValues,
     rulesProb    : ProbValues,
     rulesRec     : RecValues]

VoterInit == voteArgs \in VoterArgs /\ voteResult = None
VoterIdle == /\ voteArgs = [bayesianProb |-> None, bayesianRec |-> None,
                            eloProb |-> 5000, eloRec |-> "NEUTRAL",
                            rulesProb |-> 5000, rulesRec |-> "PASS"]
             /\ voteResult = None

\* One call of EnsembleVoter.vote on the drawn arguments.
VoteCall ==
    /\ voteResult = None
    /\ voteResult' = Some(vote(voteArgs.bayesianProb, voteArgs.bayesianRec,
                               voteArgs.eloProb, voteArgs.eloRec,
                               voteArgs.rulesProb, voteArgs.rulesRec))
    /\ UNCHANGED <<voteArgs, rulesVars, loopVars, velocityVars, factVars, eloVars, demoVars, temporalVars, raceVars>>

(***************************************************************************)
(* RulesEngine                                                             *)
(***************************************************************************)

PUBLIC_FADE_THRESHOLD == 70
REST_CRITICAL_DIFF == 2
FATIGUE_SEVERE_THRESHOLD == 7
FATIGUE_MODERATE_THRESHOLD == 4

\* Largest number of rest days drawn for a context.
MaxRestDays == 3

RestDayValues == {None} \cup {Some(d) : d \in 0..MaxRestDays}
PublicBetPctValues == {None, Some(70), Some(71)}
OptBoolean == {None, Some(FALSE), Some(TRUE)}
ScheduleSpotValues ==
    {None, Some("NORMAL"), Some("B2B"), Some("3_IN_4"), Some("4_IN_5"),
     Some("TRAVEL_B2B")}
FatigueScoreValues == {None, Some(-7), Some(-4), Some(3), Some(7)}
CircadianValues == {None, Some("AWAY"), Some("HOME")}

\* baseProbability: below 0, 0, close to 0, with a fourth decimal, at both
\* ends of [0,1] and above 1; 0.6 and 0.56 reach the band boundaries 0.58,
\* 0.54 and 0.42 through the penalties.
BaseProbValues == {-500, 0, 300, 5555, 5600, 6000, 10000, 12000}

GameContexts ==
    [homeRestDays : RestDayValues,
     awayRestDays : RestDayValues,
     publicBetPct : PublicBetPctValues,
     sharpAction  : OptBoolean,
     scheduleSpot : ScheduleSpotValues,
     fatigueScore : FatigueScoreValues,
     circadianDisadvantage : CircadianValues,
     isEarlyGame  : OptBoolean]

\* JavaScript truthiness of an optional boolean field.
Truthy(opt) == opt # None /\ opt[1]

Violation(rule, team, adjustment, severity) ==
    [rule |-> rule, team |-> team, adjustment |-> adjustment,
     severity |-> severity]

\* Variant of restDisadvantage whose first penalty has the wrong sign.
restDisadvantage_raises(c) ==
    IF c.homeRestDays = None \/ c.awayRestDays = None THEN None
    ELSE IF c.homeRestDays[1] = 0 /\ c.awayRestDays[1] >= REST_CRITICAL_DIFF
    THEN Some(Violation("REST_DISADVANTAGE", "home", 500, "critical"))
    ELSE IF c.awayRestDays[1] = 0 /\ c.homeRestDays[1] >= REST_CRITICAL_DIFF
    THEN Some(Violation("REST_DISADVANTAGE", "away", -500, "critical"))
    ELSE IF c.homeRestDays[1] = 0 /\ c.awayRestDays[1] >= 1
    THEN Some(Violation("REST_DISADVANTAGE", "home", -300, "warning"))
    ELSE None

restDisadvantage(c) ==
    IF c.homeRestDays = None \/ c.awayRestDays = None THEN None
    ELSE IF c.homeRestDays[1] = 0 /\ c.awayRestDays[1] >= REST_CRITICAL_DIFF
    THEN Some(Violation("REST_DISADVANTAGE", "home", -500, "critical"))
    ELSE IF c.awayRestDays[1] = 0 /\ c.homeRestDays[1] >= REST_CRITICAL_DIFF
    THEN Some(Violation("REST_DISADVANTAGE", "away", -500, "critical"))
    ELSE IF c.homeRestDays[1] = 0 /\ c.awayRestDays[1] >= 1
    THEN Some(Violation("REST_DISADVANTAGE", "home", -300, "warning"))
    ELSE None

\* Variant of publicFade that does not look at sharpAction.
publicFade_ignoresSharp(c) ==
    IF c.publicBetPct = None THEN None
    ELSE IF c.publicBetPct[1] > PUBLIC_FADE_THRESHOLD
    THEN Some(Violation("PUBLIC_FADE", "home", 0, "auto-pass"))
    ELSE None

publicFade(c) ==
    IF c.publicBetPct = None THEN None
    ELSE IF c.publicBetPct[1] > PUBLIC_FADE_THRESHOLD /\ ~Truthy(c.sharpAction)
    THEN Some(Violation("PUBLIC_FADE", "home", 0, "auto-pass"))
    ELSE None

travelPenalty(c) ==
    IF c.scheduleSpot = Some("TRAVEL_B2B")
    THEN Some(Violation("TRAVEL_B2B", "away", -400, "critical"))
    ELSE None

fatiguePenalty(c) ==
    IF c.fatigueScore = None THEN None
    ELSE
      LET absScore == Abs(c.fatigueScore[1])
          disadvantagedTeam == IF c.fatigueScore[1] > 0 THEN "away" ELSE "home"
      IN  IF absScore >= FATIGUE_SEVERE_THRESHOLD
          THEN Some(Violation("FATIGUE_SEVERE", disadvantagedTeam, -300, "critical"))
          ELSE IF absScore >= FATIGUE_MODERATE_THRESHOLD
          THEN Some(Violation("FATIGUE_MODERATE", disadvantagedTeam, -200, "warning"))
          ELSE None

circadianPenalty(c) ==
    IF c.circadianDisadvantage = Some("AWAY") /\ Truthy(c.isEarlyGame)
    THEN Some(Violation("CIRCADIAN", "away", -200, "warning"))
    ELSE None

scheduleSpotPenalty(c) ==
    IF c.scheduleSpot = Some("3_IN_4")
    THEN Some(Violation("SCHEDULE_3_IN_4", "away", -200, "warning"))
    ELSE IF c.scheduleSpot = Some("4_IN_5")
    THEN Some(Violation("SCHEDULE_4_IN_5", "away", -300, "critical"))
    ELSE None

\* The rule battery, in its fixed order; a rule is named by its function.
ALL_RULES ==
    <<"restDisadvantage", "publicFade", "travelPenalty", "fatiguePenalty",
      "circadianPenalty", "scheduleSpotPenalty">>

\* rule(ctx) for the rule of that name
applyRule(rule, c) ==
    CASE rule = "restDisadvantage"    -> restDisadvantage(c)
      [] rule = "publicFade"          -> publicFade(c)
      [] rule = "travelPenalty"       -> travelPenalty(c)
      [] rule = "fatiguePenalty"      -> fatiguePenalty(c)
      [] rule = "circadianPenalty"    -> circadianPenalty(c)
      [] rule = "scheduleSpotPenalty" -> scheduleSpotPenalty(c)

\* Variant of runRules that leaves the loop once a rule has blocked.
RECURSIVE runRules_stopAtBlock(_, _, _)
runRules_stopAtBlock(rules, c, acc) ==
    IF rules = << >> \/ acc.blocked THEN acc
    ELSE
      LET violation == applyRule(Head(rules), c) IN
      runRules_stopAtBlock(Tail(rules), c,
          IF violation # None
          THEN [violations |-> Append(acc.violations, violation[1]),
                totalAdjustment |-> acc.totalAdjustment + violation[1].adjustment,
                blocked |-> acc.blocked \/ violation[1].severity = "auto-pass"]
          ELSE acc)

\* for (const rule of ALL_RULES) { ... } over the remaining rules, from the
\* accumulators acc = [violations, totalAdjustment, blocked].
RECURSIVE runRules(_, _, _)
runRules(rules, c, acc) ==
    IF rules = << >> THEN acc
    ELSE
      LET violation == applyRule(Head(rules), c) IN
      runRules(Tail(rules), c,
          IF violation # None
          THEN [violations |-> Append(acc.violations, violation[1]),
                totalAdjustment |-> acc.totalAdjustment + violation[1].adjustment,
                blocked |-> acc.blocked \/ violation[1].severity = "auto-pass"]
          ELSE acc)

Min(a, b) == IF a < b THEN a ELSE b
Max(a, b) == IF a > b THEN a ELSE b

\* Math.max(0, Math.min(1, x))
clamp01(x) == Max(0, Min(10000, x))

\* Variant of probToRecommendation with < at the FADE boundary.
probToRecommendation_strictFade(prob) ==
    IF prob >= 5800 THEN "BET"
    ELSE IF prob >= 5400 THEN "LEAN"
    ELSE IF prob < 4200 THEN "FADE"
    ELSE "PASS"

probToRecommendation(prob) ==
    IF prob >= 5800 THEN "BET"
    ELSE IF prob >= 5400 THEN "LEAN"
    ELSE IF prob <= 4200 THEN "FADE"
    ELSE "PASS"

\* The summary text, kept as its template and the numbers put into it.
formatSummary(violations, adjustedProb, blocked) ==
    IF blocked THEN <<"BLOCKED">>
    ELSE IF Len(violations) = 0 THEN <<"CLEAR">>
    ELSE <<"violations",
           Cardinality({i \in DOMAIN violations : violations[i].severity = "critical"}),
           Cardinality({i \in DOMAIN violations : violations[i].severity = "warning"}),
           adjustedProb>>

evaluate(c, baseProb) ==
    LET acc == runRules(ALL_RULES, c,
                        [violations |-> << >>, totalAdjustment |-> 0,
                         blocked |-> FALSE])
        adjustedProb == clamp01(baseProb + acc.totalAdjustment)
    IN  [violations |-> acc.violations,
         adjustedProbability |-> Round3(adjustedProb, 1),
         recommendation |-> IF acc.blocked THEN "BLOCKED"
                            ELSE probToRecommendation(adjustedProb),
         summary |-> formatSummary(acc.violations, adjustedProb, acc.blocked)]

isBlocked(result) == result.recommendation = "BLOCKED"

RulesInit == /\ ctx \in GameContexts
             /\ baseProbability \in BaseProbValues
             /\ rulesResult = None
RulesIdle == /\ ctx = [homeRestDays |-> None, awayRestDays |-> None,
                       publicBetPct |-> None, sharpAction |-> None,
                       scheduleSpot |-> None, fatigueScore |-> None,
                       circadianDisadvantage |-> None, isEarlyGame |-> None]
             /\ baseProbability = 5000
             /\ rulesResult = None

\* One call of RulesEngine.evaluate on the drawn context and probability.
EvaluateCall ==
    /\ rulesResult = None
    /\ rulesResult' = Some(evaluate(ctx, baseProbability))
    /\ UNCHANGED <<ctx, baseProbability, voterVars, loopVars, velocityVars, factVars, eloVars, demoVars, temporalVars, raceVars>>

(***************************************************************************)
(* FactChecker.validate, as the verification loop sees it                  *)
(***************************************************************************)

\* The four checks of validate, in the order it runs them.  A generated
\* signal is described by the checks its text fails (its defects): the
\* generator is external and may produce any of them.
CHECKS == <<"spread", "teams", "date", "stats">>

CheckSet == {CHECKS[i] : i \in DOMAIN CHECKS}

\* issues.push(...) for every check that reports an issue, in check order
RECURSIVE collectIssues(_, _)
collectIssues(checks, defects) ==
    IF checks = << >> THEN << >>
    ELSE (IF Head(checks) \in defects THEN <<Head(checks)>> ELSE << >>)
         \o collectIssues(Tail(checks), defects)

validate(sig) ==
    LET found == collectIssues(CHECKS, sig.defects) IN
    [passed |-> Len(found) = 0, issues |-> found]

(***************************************************************************)
(* analyzeWithVerification (analyzeWithRetry is the same loop)             *)
(***************************************************************************)

MAX_RETRIES == 2

\* Variant of loopCondition that allows one more iteration.
loopCondition_oneMore(a) == a <= MAX_RETRIES + 1

\* The loop condition of  for (attempt = 0; attempt <= MAX_RETRIES; attempt++)
loopCondition(a) == a <= MAX_RETRIES

\* Variant of exhausted that hands out the last signal generated.
exhausted_lastSignal(sig) == sig

\* What the call returns once the loop is left without a passed validation:
\* null, whatever the last signal was.
exhausted(sig) == None

LoopInit ==
    /\ pc = "idle"
    /\ attempt = 0
    /\ issues = << >>
    /\ signal = None
    /\ validation = None
    /\ returned = None
    /\ trace = << >>

LoopIdle == LoopInit

\* analyzeWithVerification(game) is called (for the first, or for a next game).
Call ==
    /\ pc \in {"idle", "done"}
    /\ pc' = IF loopCondition(0) THEN "generate" ELSE "done"
    /\ attempt' = 0
    /\ issues' = << >>
    /\ signal' = None
    /\ validation' = None
    /\ returned' = None
    /\ trace' = << >>
    /\ UNCHANGED <<voterVars, rulesVars, velocityVars, factVars, eloVars, demoVars, temporalVars, raceVars>>

\* const signal = await llm.analyze(game, { previousIssues: issues })
Generate ==
    /\ pc = "generate"
    /\ \E defects \in SUBSET CheckSet :
         LET sig == [attempt |-> attempt, defects |-> defects] IN
         /\ signal' = Some(sig)
         /\ trace' = Append(trace, [op |-> "generate", signal |-> sig,
                                    previousIssues |-> issues, passed |-> FALSE])
    /\ pc' = "validate"
    /\ UNCHANGED <<attempt, issues, validation, returned, voterVars, rulesVars, velocityVars, factVars, eloVars, demoVars, temporalVars, raceVars>>

\* Variant of nextIssues that appends the new issues to the old ones.
nextIssues_accumulate(old, found) == old \o found

\* issues = validation.issues: the issues of the failed validation replace
\* whatever the variable held.
nextIssues(old, found) == found

\* const validation = await factChecker.validate(signal, game), and the rest
\* of the loop body up to the next await or return.
Validate ==
    /\ pc = "validate"
    /\ LET v == validate(signal[1]) IN
       /\ validation' = Some(v)
       /\ trace' = Append(trace, [op |-> "validate", signal |-> signal[1],
                                  previousIssues |-> issues, passed |-> v.passed])
       /\ IF v.passed
          THEN /\ returned' = signal
               /\ pc' = "done"
               /\ UNCHANGED <<issues, attempt>>
          ELSE /\ issues' = nextIssues(issues, v.issues)
               /\ attempt' = attempt + 1
               /\ IF loopCondition(attempt + 1)
                  THEN pc' = "generate" /\ returned' = None
                  ELSE pc' = "done" /\ returned' = exhausted(signal)
    /\ UNCHANGED <<signal, voterVars, rulesVars, velocityVars, factVars, eloVars, demoVars, temporalVars, raceVars>>

(***************************************************************************)
(* VelocityTracker                                                         *)
(*                                                                         *)
(* A LineSnapshot is [timestamp, spread, total]: the timestamp in minutes, *)
(* spread and total in tenths of a point.  A velocity (points per hour,    *)
(* before rounding) is the rational <<num, den>> in tenths of a point per  *)
(* hour.  In a result, spreadVelocity and totalVelocity are in hundredths  *)
(* of a point per hour, spreadMoved and totalMoved in tenths of a point,   *)
(* hoursTracked in tenths of an hour.                                      *)
(***************************************************************************)

STEAM_THRESHOLD == 5
LATE_WINDOW_HOURS == 2

MaxSnapshots == 3

\* Timestamps 5 and 6 minutes (0.1 hour) after the first one, one an hour
\* after that (half a point in an hour is the steam threshold), and one later
\* than the late window.
TimeValues   == {0, 5, 6, 66, 126}
SpreadValues == {-45, -30, -25}
TotalValues  == {2200, 2205}

LineSnapshots == [timestamp : TimeValues, spread : SpreadValues, total : TotalValues]

SnapshotLists == UNION {[1..n -> LineSnapshots] : n \in 0..MaxSnapshots}

\* [...snapshots].sort((a, b) => time(a) - time(b)): Array.prototype.sort is
\* stable, so snapshots of equal timestamp keep their order.
RECURSIVE insertByTimestamp(_, _)
insertByTimestamp(sorted, s) ==
    IF sorted = << >> THEN <<s>>
    ELSE IF sorted[Len(sorted)].timestamp <= s.timestamp THEN Append(sorted, s)
    ELSE Append(insertByTimestamp(SubSeq(sorted, 1, Len(sorted) - 1), s),
                sorted[Len(sorted)])

\* Variant of sortByTimestamp that leaves the snapshots in the order passed.
sortByTimestamp_inputOrder(snaps) == snaps

RECURSIVE sortByTimestamp(_)
sortByTimestamp(snaps) ==
    IF snaps = << >> THEN << >>
    ELSE insertByTimestamp(sortByTimestamp(SubSeq(snaps, 1, Len(snaps) - 1)),
                           snaps[Len(snaps)])

noDataResult ==
    [spreadVelocity |-> 0, totalVelocity |-> 0, spreadMoved |-> 0,
     totalMoved |-> 0, hoursTracked |-> 0, isSteamMove |-> FALSE,
     steamDirection |-> None, lateMovement |-> FALSE,
     summary |-> <<"No line history available">>]

\* Variant of detectSteam with > at the spread threshold.
detectSteam_strictSpread(spreadVelocity, totalVelocity) ==
    IF Abs(spreadVelocity[1]) > STEAM_THRESHOLD * spreadVelocity[2]
    THEN [isSteamMove |-> TRUE,
          steamDirection |-> Some(IF spreadVelocity[1] > 0 THEN "HOME" ELSE "AWAY")]
    ELSE IF Abs(totalVelocity[1]) >= STEAM_THRESHOLD * totalVelocity[2]
    THEN [isSteamMove |-> TRUE,
          steamDirection |-> Some(IF totalVelocity[1] > 0 THEN "OVER" ELSE "UNDER")]
    ELSE [isSteamMove |-> FALSE, steamDirection |-> None]

detectSteam(spreadVelocity, totalVelocity) ==
    IF Abs(spreadVelocity[1]) >= STEAM_THRESHOLD * spreadVelocity[2]
    THEN [isSteamMove |-> TRUE,
          steamDirection |-> Some(IF spreadVelocity[1] > 0 THEN "HOME" ELSE "AWAY")]
    ELSE IF Abs(totalVelocity[1]) >= STEAM_THRESHOLD * totalVelocity[2]
    THEN [isSteamMove |-> TRUE,
          steamDirection |-> Some(IF totalVelocity[1] > 0 THEN "OVER" ELSE "UNDER")]
    ELSE [isSteamMove |-> FALSE, steamDirection |-> None]

\* Variant of detectLateMovement whose window excludes the snapshot that is
\* exactly LATE_WINDOW_HOURS old.
detectLateMovement_openWindow(sortedSnapshots) ==
    IF Len(sortedSnapshots) < 2 THEN FALSE
    ELSE
      LET last == sortedSnapshots[Len(sortedSnapshots)]
          cutoffTime == last.timestamp - LATE_WINDOW_HOURS * 60
          recentSnapshots ==
              SelectSeq(sortedSnapshots, LAMBDA s : s.timestamp > cutoffTime)
      IN  IF Len(recentSnapshots) < 2 THEN FALSE
          ELSE Abs(last.spread - recentSnapshots[1].spread) >= 5
               \/ Abs(last.total - recentSnapshots[1].total) >= 5

detectLateMovement(sortedSnapshots) ==
    IF Len(sortedSnapshots) < 2 THEN FALSE
    ELSE
      LET last == sortedSnapshots[Len(sortedSnapshots)]
          cutoffTime == last.timestamp - LATE_WINDOW_HOURS * 60
          recentSnapshots ==
              SelectSeq(sortedSnapshots, LAMBDA s : s.timestamp >= cutoffTime)
      IN  IF Len(recentSnapshots) < 2 THEN FALSE
          ELSE Abs(last.spread - recentSnapshots[1].spread) >= 5
               \/ Abs(last.total - recentSnapshots[1].total) >= 5

\* The parts of the summary text, by what each reports.
generateSummary(spreadMoved, totalMoved, isSteamMove, lateMovement) ==
    LET parts ==
            (IF Abs(spreadMoved) >= 5 THEN <<"Spread moved">> ELSE << >>)
            \o (IF Abs(totalMoved) >= 5 THEN <<"Total moved">> ELSE << >>)
            \o (IF isSteamMove THEN <<"STEAM MOVE DETECTED">> ELSE << >>)
            \o (IF lateMovement THEN <<"Late movement detected">> ELSE << >>)
    IN  IF Len(parts) = 0 THEN <<"Line stable - minimal movement">> ELSE parts

\* Variant of spanTooShort that also rejects a span of exactly 0.1 hour.
spanTooShort_atMostTenth(minutes) == minutes * 10 <= 60

\* hoursTracked < 0.1, with hoursTracked = minutes / 60
spanTooShort(minutes) == minutes * 10 < 60

analyze(snaps) ==
    IF Len(snaps) < 2 THEN noDataResult
    ELSE
      LET sorted  == sortByTimestamp(snaps)
          first   == sorted[1]
          last    == sorted[Len(sorted)]
          minutes == last.timestamp - first.timestamp
      IN  IF spanTooShort(minutes) THEN noDataResult
          ELSE
            LET spreadMoved == last.spread - first.spread
                totalMoved  == last.total - first.total
                spreadVelocity == <<60 * spreadMoved, minutes>>
                totalVelocity  == <<60 * totalMoved, minutes>>
                steam == detectSteam(spreadVelocity, totalVelocity)
                lateMovement == detectLateMovement(sorted)
            IN  [spreadVelocity |-> RoundDiv(600 * spreadMoved, minutes),
                 totalVelocity  |-> RoundDiv(600 * totalMoved, minutes),
                 spreadMoved    |-> spreadMoved,
                 totalMoved     |-> totalMoved,
                 hoursTracked   |-> RoundDiv(minutes, 6),
                 isSteamMove    |-> steam.isSteamMove,
                 steamDirection |-> steam.steamDirection,
                 lateMovement   |-> lateMovement,
                 summary |-> generateSummary(spreadMoved, totalMoved,
                                             steam.isSteamMove, lateMovement)]

VelocityInit == snapshots \in SnapshotLists /\ velocityResult = None
VelocityIdle == snapshots = << >> /\ velocityResult = None

\* One call of VelocityTracker.analyze on the drawn snapshots.
AnalyzeCall ==
    /\ velocityResult = None
    /\ velocityResult' = Some(analyze(snapshots))
    /\ UNCHANGED <<snapshots, voterVars, rulesVars, loopVars, factVars, eloVars, demoVars, temporalVars, raceVars>>

(***************************************************************************)
(* FactChecker: the four checks on the text of a signal                    *)
(*                                                                         *)
(* A text is a sequence of tokens [kind, value]: a team name as written, a *)
(* word, a spread claim ("7.5 point", value in tenths of a point), a ppg   *)
(* claim ("55 ppg"), a win percentage claim ("120% win") or a day word.    *)
(* A regular expression  a.*b  matches a text that has a token matching a  *)
(* and a later token matching b.  An issue is [label, args]: the fixed     *)
(* head of the message and the values put into it.                         *)
(***************************************************************************)

SPREAD_TOLERANCE == 5

MaxTextLen == 3

Team(name)      == [kind |-> "team", value |-> name]
Word(w)         == [kind |-> "word", value |-> w]
SpreadClaim(v)  == [kind |-> "spread", value |-> v]
PpgClaim(v)     == [kind |-> "ppg", value |-> v]
WinPctClaim(v)  == [kind |-> "winpct", value |-> v]
DayWord(d)      == [kind |-> "day", value |-> d]

ReasoningTokens ==
    {Team("Boston Celtics"), Team("Los Angeles Lakers"), Team("Lakers"),
     Word("home"), Word("road"), Word("away"),
     SpreadClaim(75), SpreadClaim(30),
     PpgClaim(55), PpgClaim(30), WinPctClaim(120)}

TweetTokens ==
    {DayWord("sunday"), DayWord("sat"), Word("home"), Word("road"), Word("away"),
     SpreadClaim(30)}

ReasoningTexts == UNION {[1..n -> ReasoningTokens] : n \in 0..MaxTextLen}
TweetTexts == {<< >>} \cup {<<t>> : t \in TweetTokens}

SignalOutputs == [reasoning : ReasoningTexts, tweetText : TweetTexts]

\* One fixture, Lakers at Celtics on a Saturday, with the home team favored
\* by 7.5 or an underdog by 3.
GameDatas ==
    [homeTeam : {"Boston Celtics"}, awayTeam : {"Los Angeles Lakers"},
     spread : {-75, 30}, dayOfWeek : {"saturday"}]

\* String.prototype.toLowerCase on the names that occur
toLowerCase(str) ==
    CASE str = "Boston Celtics" -> "boston celtics"
      [] str = "Los Angeles Lakers" -> "los angeles lakers"
      [] str = "Lakers" -> "lakers"
      [] str = "NBA" -> "nba"
      [] str = "NHL" -> "nhl"
      [] str = "BOS" -> "bos"
      [] str = "GSW" -> "gsw"
      [] str = "MIL" -> "mil"
      [] str = "MON" -> "mon"
      [] str = "WAS" -> "was"
      [] OTHER -> str

Issue(label, args) == [label |-> label, args |-> args]

\* text.match(pattern) without the g flag: the first match only
firstMatch(text, kind) ==
    LET hits == {i \in DOMAIN text : text[i].kind = kind} IN
    IF hits = {} THEN None
    ELSE Some(text[CHOOSE i \in hits : \A j \in hits : i <= j])

verifySpread(sig, game) ==
    LET inReasoning == firstMatch(sig.reasoning, "spread")
        match == IF inReasoning # None THEN inReasoning
                 ELSE firstMatch(sig.tweetText, "spread")
    IN  IF match # None
           /\ Abs(Abs(match[1].value) - Abs(game.spread)) > SPREAD_TOLERANCE
        THEN Some(Issue("Spread mismatch", <<match[1].value, game.spread>>))
        ELSE None

\* new RegExp(`${name}.*${word}`).test(text), on the lower-cased text
nameThenWord(text, name, word) ==
    \E i, j \in DOMAIN text :
        /\ i < j
        /\ text[i].kind = "team" /\ toLowerCase(text[i].value) = toLowerCase(name)
        /\ text[j].kind = "word" /\ text[j].value = word

hasWord(text, word) ==
    \E i \in DOMAIN text : text[i].kind = "word" /\ text[i].value = word

\* new RegExp(`${homeTeam}.*road|away`): the alternation has the lowest
\* precedence, so the pattern is  (homeTeam.*road) | (away).
homeAwayPattern(text, homeTeam) ==
    nameThenWord(text, homeTeam, "road") \/ hasWord(text, "away")

awayHomePattern(text, awayTeam) == nameThenWord(text, awayTeam, "home")

verifyTeams(sig, game) ==
    LET text == sig.reasoning \o sig.tweetText IN
    IF awayHomePattern(text, game.awayTeam)
    THEN Some(Issue("Team location error", <<game.awayTeam, "is the away team, not home">>))
    ELSE IF homeAwayPattern(text, game.homeTeam)
    THEN Some(Issue("Team location error", <<game.homeTeam, "is the home team, not away">>))
    ELSE None

dayPatterns ==
    << [day |-> "monday", abbr |-> "mon"], [day |-> "tuesday", abbr |-> "tue"],
       [day |-> "wednesday", abbr |-> "wed"], [day |-> "thursday", abbr |-> "thu"],
       [day |-> "friday", abbr |-> "fri"], [day |-> "saturday", abbr |-> "sat"],
       [day |-> "sunday", abbr |-> "sun"] >>

\* text.includes(day) || text.includes(abbr), for a text of day words
includesDay(text, pattern) ==
    \E i \in DOMAIN text :
        text[i].kind = "day" /\ text[i].value \in {pattern.day, pattern.abbr}

verifyDate(sig, game) ==
    LET text == sig.tweetText
        wrong == {k \in DOMAIN dayPatterns :
                     includesDay(text, dayPatterns[k]) /\ game.dayOfWeek # dayPatterns[k].day}
    IN  IF wrong = {} THEN None
        ELSE LET k == CHOOSE k \in wrong : \A m \in wrong : k <= m IN
             Some(Issue("Date mismatch", <<dayPatterns[k].day, game.dayOfWeek>>))

\* Variant of verifyStats that looks at the win percentage first.
verifyStats_pctFirst(sig) ==
    LET text == sig.reasoning
        ppgMatch == firstMatch(text, "ppg")
        winPctMatch == firstMatch(text, "winpct")
    IN  IF winPctMatch # None /\ winPctMatch[1].value > 100
        THEN Some(Issue("Invalid percentage", <<winPctMatch[1].value>>))
        ELSE IF ppgMatch # None /\ ppgMatch[1].value > 45
        THEN Some(Issue("Implausible stat", <<ppgMatch[1].value>>))
        ELSE None

verifyStats(sig) ==
    LET text == sig.reasoning
        ppgMatch == firstMatch(text, "ppg")
        winPctMatch == firstMatch(text, "winpct")
    IN  IF ppgMatch # None /\ ppgMatch[1].value > 45
        THEN Some(Issue("Implausible stat", <<ppgMatch[1].value>>))
        ELSE IF winPctMatch # None /\ winPctMatch[1].value > 100
        THEN Some(Issue("Invalid percentage", <<winPctMatch[1].value>>))
        ELSE None

\* FactChecker.validate: issues.push(issue) for each check that returns one.
\* An optional issue <<>> or <<issue>> is the sequence that gets appended.
FactChecker_validate(sig, game) ==
    LET found == verifySpread(sig, game) \o verifyTeams(sig, game)
                 \o verifyDate(sig, game) \o verifyStats(sig)
    IN  [passed |-> Len(found) = 0, issues |-> found]

FactInit ==
    /\ factSignal \in SignalOutputs
    /\ factGame \in GameDatas
    /\ factResult = None

FactIdle ==
    /\ factSignal = [reasoning |-> << >>, tweetText |-> << >>]
    /\ factGame = [homeTeam |-> "Boston Celtics", awayTeam |-> "Los Angeles Lakers",
                   spread |-> -75, dayOfWeek |-> "saturday"]
    /\ factResult = None

\* One call of FactChecker.validate on the drawn signal and game.
ValidateCall ==
    /\ factResult = None
    /\ factResult' = Some(FactChecker_validate(factSignal, factGame))
    /\ UNCHANGED <<factSignal, factGame, voterVars, rulesVars, loopVars, velocityVars, eloVars, demoVars, temporalVars, raceVars>>

(***************************************************************************)
(* Elo model                                                               *)
(*                                                                         *)
(* A string is the sequence of its characters.  Ratings and rating changes *)
(* are integers in units of 0.001 Elo point; a win probability before      *)
(* rounding is in units of 0.00001; predictedHomeWinProb is, like every    *)
(* probability rounded to 3 decimals, in units of 0.0001; expectedMargin   *)
(* is in tenths of a point; the margin-of-victory multiplier is in         *)
(* hundredths.                                                             *)
(***************************************************************************)

BASE_ELO == 1500
K_FACTOR == 20
HOME_ADVANTAGE == 100

MaxUpdates == 2

Celtics       == <<"C", "e", "l", "t", "i", "c", "s">>
Heat          == <<"H", "e", "a", "t">>
Wizards       == <<"W", "i", "z", "a", "r", "d", "s">>
BostonCeltics == <<"B", "o", "s", "t", "o", "n", " ">> \o Celtics
Wiz           == <<"W", "i", "z">>
Sonics        == <<"S", "o", "n", "i", "c", "s">>

\* Names passed to predictGame and updateElo: two that are keys once
\* lower-cased, two that getTeamElo resolves by substring match (the name
\* includes a key, a key includes the name) and one it resolves to BASE_ELO.
TeamNames == {Celtics, Wizards, BostonCeltics, Wiz, Sonics}

\* Margins m with |m| + 1 a power of ten: the default 0 (multiplier 1) and a
\* negative one whose multiplier 1 + 3 * 0.5 is capped at 2.
MarginValues == {0, -999}

lowerChar(c) ==
    CASE c = "B" -> "b" [] c = "C" -> "c" [] c = "H" -> "h"
      [] c = "S" -> "s" [] c = "W" -> "w" [] OTHER -> c

\* String.prototype.toLowerCase
lowerCase(str) == [i \in DOMAIN str |-> lowerChar(str[i])]

\* String.prototype.includes
includes(str, sub) ==
    \E k \in 0..(Len(str) - Len(sub)) : SubSeq(str, k + 1, k + Len(sub)) = sub

\* The table initializeNbaElo fills at module load, for three of its teams
\* in their insertion order; the timestamp of the load is 0.
initializeNbaElo ==
    << [key |-> lowerCase(Celtics),
        value |-> [team |-> Celtics, rating |-> 1650 * 1000, games |-> 0, lastUpdated |-> 0]],
       [key |-> lowerCase(Heat),
        value |-> [team |-> Heat, rating |-> 1520 * 1000, games |-> 0, lastUpdated |-> 0]],
       [key |-> lowerCase(Wizards),
        value |-> [team |-> Wizards, rating |-> 1410 * 1000, games |-> 0, lastUpdated |-> 0]] >>

\* Map.prototype.has / get / set of a present key
has(table, key) == \E i \in DOMAIN table : table[i].key = key

get(table, key) == table[CHOOSE i \in DOMAIN table : table[i].key = key].value

put(table, key, value) ==
    [i \in DOMAIN table |->
        IF table[i].key = key THEN [key |-> key, value |-> value] ELSE table[i]]

getTeamElo(table, teamName) ==
    LET normalized == lowerCase(teamName)
        fuzzy == {i \in DOMAIN table :
                     includes(normalized, table[i].key) \/ includes(table[i].key, normalized)}
    IN  IF has(table, normalized) THEN get(table, normalized).rating
        ELSE IF fuzzy # {}
        THEN table[CHOOSE i \in fuzzy : \A j \in fuzzy : i <= j].value.rating
        ELSE BASE_ELO * 1000

\* 1 / (1 + 10^(-d / 400)) for d = -400, -390, ..., 600 Elo points, rounded
\* to 5 decimals.
logisticTable ==
    << 9091, 9578, 10088, 10623, 11182, 11766, 12377, 13015, 13681, 14375,
       15098, 15851, 16634, 17447, 18292, 19168, 20076, 21016, 21987, 22990,
       24025, 25092, 26189, 27317, 28475, 29661, 30876, 32118, 33386, 34678,
       35994, 37330, 38686, 40060, 41450, 42854, 44269, 45693, 47125, 48561,
       50000, 51439, 52875, 54307, 55731, 57146, 58550, 59940, 61314, 62670,
       64006, 65322, 66614, 67882, 69124, 70339, 71525, 72683, 73811, 74908,
       75975, 77010, 78013, 78984, 79924, 80832, 81708, 82553, 83366, 84149,
       84902, 85625, 86319, 86985, 87623, 88234, 88818, 89377, 89912, 90422,
       90909, 91374, 91817, 92239, 92641, 93024, 93389, 93735, 94065, 94378,
       94676, 94959, 95227, 95482, 95724, 95954, 96171, 96378, 96573, 96759,
       96935 >>

\* 1 / (1 + Math.pow(10, (ratingB - ratingA) / 400)): the tabulated value,
\* linear between two entries (within 0.00005 of the function) and constant
\* beyond the ends of the table.
expectedWinProbability(ratingA, ratingB) ==
    LET d    == ratingA - ratingB
        dc   == IF d < -400000 THEN -400000 ELSE IF d > 600000 THEN 600000 ELSE d
        k    == (dc + 400000) \div 10000
        frac == (dc + 400000) % 10000
    IN  IF k + 1 >= Len(logisticTable) THEN logisticTable[Len(logisticTable)]
        ELSE logisticTable[k + 1]
             + ((logisticTable[k + 2] - logisticTable[k + 1]) * frac) \div 10000

\* eloDiff / 25, rounded to one decimal by the caller
eloToMargin(eloDiff) == RoundDiv(eloDiff, 2500)

predictGame(table, homeTeam, awayTeam) ==
    LET homeElo == getTeamElo(table, homeTeam)
        awayElo == getTeamElo(table, awayTeam)
        adjustedHomeElo == homeElo + HOME_ADVANTAGE * 1000
        homeWinProb == expectedWinProbability(adjustedHomeElo, awayElo)
        eloDiff == adjustedHomeElo - awayElo
    IN  [homeElo |-> homeElo,
         awayElo |-> awayElo,
         predictedHomeWinProb |-> Round3(homeWinProb, 10),
         expectedMargin |-> eloToMargin(eloDiff),
         recommendation |-> IF homeWinProb > 55000 THEN "HOME"
                            ELSE IF homeWinProb < 45000 THEN "AWAY"
                            ELSE "NEUTRAL"]

\* Math.log10 of a power of ten, in hundredths
log10(n) == CASE n = 1 -> 0 [] n = 10 -> 100 [] n = 100 -> 200 [] n = 1000 -> 300

\* Math.min(2, 1 + Math.log10(Math.abs(marginOfVictory) + 1) * 0.5)
movMultiplier(marginOfVictory) ==
    Min(200, 100 + (log10(Abs(marginOfVictory) + 1) * 50) \div 100)

\* K_FACTOR * movMultiplier * (actualHome - expectedHome), to 0.001 point
eloChangeOf(expectedHome, homeWon, marginOfVictory) ==
    LET actualHome == IF homeWon THEN 100000 ELSE 0 IN
    RoundDiv(K_FACTOR * movMultiplier(marginOfVictory) * (actualHome - expectedHome),
             10000)

\* homeEloRecord.rating += eloChange; games += 1; lastUpdated = now, and the
\* same with -= for the away record.  When both names are the same key the
\* two records are one object and the second group of statements works on
\* what the first left.
applyChange(table, homeKey, awayKey, eloChange, now) ==
    LET h  == get(table, homeKey)
        t1 == put(table, homeKey,
                  [h EXCEPT !.rating = @ + eloChange, !.games = @ + 1,
                            !.lastUpdated = now])
        a  == get(t1, awayKey)
    IN  put(t1, awayKey,
            [a EXCEPT !.rating = @ - eloChange, !.games = @ + 1,
                      !.lastUpdated = now])

\* Variant of updateElo that takes the change from the home team and gives
\* it to the away team.
updateElo_awayGains(table, homeTeam, awayTeam, homeWon, marginOfVictory, now) ==
    LET homeKey == lowerCase(homeTeam)
        awayKey == lowerCase(awayTeam)
    IN  IF ~has(table, homeKey) \/ ~has(table, awayKey) THEN table
        ELSE
          LET homeElo == get(table, homeKey).rating + HOME_ADVANTAGE * 1000
              awayElo == get(table, awayKey).rating
              expectedHome == expectedWinProbability(homeElo, awayElo)
              eloChange == eloChangeOf(expectedHome, homeWon, marginOfVictory)
          IN  applyChange(table, homeKey, awayKey, -eloChange, now)

\* Variant of updateElo that returns early only when both teams are
\* missing, and otherwise updates the records it finds.
updateElo_partial(table, homeTeam, awayTeam, homeWon, marginOfVictory, now) ==
    LET homeKey == lowerCase(homeTeam)
        awayKey == lowerCase(awayTeam)
        homeElo == (IF has(table, homeKey) THEN get(table, homeKey).rating
                    ELSE BASE_ELO * 1000) + HOME_ADVANTAGE * 1000
        awayElo == IF has(table, awayKey) THEN get(table, awayKey).rating
                   ELSE BASE_ELO * 1000
        expectedHome == expectedWinProbability(homeElo, awayElo)
        eloChange == eloChangeOf(expectedHome, homeWon, marginOfVictory)
        t1 == IF has(table, homeKey)
              THEN put(table, homeKey,
                       [get(table, homeKey) EXCEPT !.rating = @ + eloChange,
                            !.games = @ + 1, !.lastUpdated = now])
              ELSE table
    IN  IF has(t1, awayKey)
        THEN put(t1, awayKey,
                 [get(t1, awayKey) EXCEPT !.rating = @ - eloChange,
                      !.games = @ + 1, !.lastUpdated = now])
        ELSE t1

\* updateElo: the table it leaves.
updateElo(table, homeTeam, awayTeam, homeWon, marginOfVictory, now) ==
    LET homeKey == lowerCase(homeTeam)
        awayKey == lowerCase(awayTeam)
    IN  IF ~has(table, homeKey) \/ ~has(table, awayKey) THEN table
        ELSE
          LET homeElo == get(table, homeKey).rating + HOME_ADVANTAGE * 1000
              awayElo == get(table, awayKey).rating
              expectedHome == expectedWinProbability(homeElo, awayElo)
              eloChange == eloChangeOf(expectedHome, homeWon, marginOfVictory)
          IN  applyChange(table, homeKey, awayKey, eloChange, now)

NoCall == [op |-> "none"]

EloInit ==
    /\ eloRatings = initializeNbaElo
    /\ eloNow = 0
    /\ eloCall = NoCall
    /\ eloFirst = None

EloIdle == EloInit

\* predictGame(homeTeam, awayTeam)
PredictGame ==
    \E homeTeam \in TeamNames, awayTeam \in TeamNames :
        LET table == IF Len(eloRatings) = 0 THEN initializeNbaElo ELSE eloRatings IN
        /\ eloRatings' = table
        /\ eloCall' = [op |-> "predictGame", homeTeam |-> homeTeam,
                       awayTeam |-> awayTeam,
                       result |-> predictGame(table, homeTeam, awayTeam)]
        /\ eloFirst' = IF /\ eloCall.op = "updateElo"
                          /\ eloCall.homeTeam = homeTeam
                          /\ eloCall.awayTeam = awayTeam
                       THEN eloFirst ELSE None
        /\ UNCHANGED <<eloNow, voterVars, rulesVars, loopVars, velocityVars, factVars, demoVars, temporalVars, raceVars>>

\* updateElo(homeTeam, awayTeam, homeWon, marginOfVictory)
UpdateElo ==
    /\ eloNow < MaxUpdates
    /\ \E homeTeam \in TeamNames, awayTeam \in TeamNames,
          homeWon \in BOOLEAN, marginOfVictory \in MarginValues :
        /\ eloRatings' = updateElo(eloRatings, homeTeam, awayTeam, homeWon,
                                   marginOfVictory, eloNow + 1)
        /\ eloCall' = [op |-> "updateElo", homeTeam |-> homeTeam,
                       awayTeam |-> awayTeam, homeWon |-> homeWon,
                       marginOfVictory |-> marginOfVictory]
        /\ eloFirst' = IF /\ eloCall.op = "predictGame"
                          /\ eloCall.homeTeam = homeTeam
                          /\ eloCall.awayTeam = awayTeam
                          /\ homeWon
                       THEN Some(eloCall.result) ELSE None
    /\ eloNow' = eloNow + 1
    /\ UNCHANGED <<voterVars, rulesVars, loopVars, velocityVars, factVars, demoVars, temporalVars, raceVars>>

(***************************************************************************)
(* Demo agent: runDemo, the five-phase workflow over a list of games       *)
(***************************************************************************)

\* GameData is kept to the fields runDemo and the checks read; spread and
\* total are in tenths of a point, publicBetPct in hundredths.  Every game's
\* time is new Date(), so its weekday is the day of the run.
MOCK_GAMES(day) ==
    << [id |-> "demo-1", league |-> "NBA",
        homeTeam |-> "Boston Celtics", homeAbbr |-> "BOS",
        awayTeam |-> "Los Angeles Lakers", awayAbbr |-> "LAL",
        spread |-> -75, total |-> 2245, publicBetPct |-> 72,
        sharpAction |-> FALSE, dayOfWeek |-> day],
       [id |-> "demo-2", league |-> "NBA",
        homeTeam |-> "Golden State Warriors", homeAbbr |-> "GSW",
        awayTeam |-> "Phoenix Suns", awayAbbr |-> "PHX",
        spread |-> -35, total |-> 2310, publicBetPct |-> 55,
        sharpAction |-> TRUE, dayOfWeek |-> day],
       [id |-> "demo-3", league |-> "NBA",
        homeTeam |-> "Milwaukee Bucks", homeAbbr |-> "MIL",
        awayTeam |-> "Miami Heat", awayAbbr |-> "MIA",
        spread |-> -50, total |-> 2185, publicBetPct |-> 68,
        sharpAction |-> FALSE, dayOfWeek |-> day] >>

\* Two further GameData records, for the runs of the workflow on a list
\* other than the three shipped games: a home favorite whose abbreviation
\* reads as a weekday, and a home underdog.
MORE_GAMES(day) ==
    << [id |-> "nhl-1", league |-> "NHL",
        homeTeam |-> "Montreal Canadiens", homeAbbr |-> "MON",
        awayTeam |-> "Toronto Maple Leafs", awayAbbr |-> "TOR",
        spread |-> -15, total |-> 60, publicBetPct |-> 55,
        sharpAction |-> FALSE, dayOfWeek |-> day],
       [id |-> "nba-4", league |-> "NBA",
        homeTeam |-> "Washington Wizards", homeAbbr |-> "WAS",
        awayTeam |-> "Boston Celtics", awayAbbr |-> "BOS",
        spread |-> 65, total |-> 2200, publicBetPct |-> 75,
        sharpAction |-> FALSE, dayOfWeek |-> day] >>

DayNames == {dayPatterns[k].day : k \in DOMAIN dayPatterns}

\* Array.prototype.filter: the elements of list at the positions in keep,
\* in the order of list
RECURSIVE selectAt(_, _, _)
selectAt(list, keep, i) ==
    IF i > Len(list) THEN << >>
    ELSE (IF i \in keep THEN <<list[i]>> ELSE << >>) \o selectAt(list, keep, i + 1)

\* The lists the workflow is run over: the shipped three, and every other
\* selection from the shipped and the further games.
GameFeeds ==
    UNION {{selectAt(MOCK_GAMES(day) \o MORE_GAMES(day), keep, 1) :
               keep \in SUBSET (1..5)} : day \in DayNames}

DemoLeagues == {"nba", "NHL"}

\* MOCK_GAMES.filter(g => g.league.toLowerCase() === options.league.toLowerCase())
reconnaissance(feed, options) ==
    selectAt(feed, {k \in DOMAIN feed :
                       toLowerCase(feed[k].league) = toLowerCase(options.league)}, 1)

\* Phase 2 for one game: the simulated model outputs and the ensemble vote.
\* 0.5 + |spread| / 20 and 0.5 + |spread| / 25 in units of 0.0001, with the
\* spread in tenths: 5000 + 50 |spread| and 5000 + 40 |spread|.
analyzeGame(game) ==
    LET bayesProb == 5000 + 50 * Abs(game.spread)
        eloProb == 5000 + 40 * Abs(game.spread)
        rulesProb == IF game.sharpAction THEN bayesProb + 500 ELSE bayesProb - 300
        side == IF game.spread < 0 THEN "HOME" ELSE "AWAY"
        rulesRec == IF game.publicBetPct # 0 /\ game.publicBetPct > 70
                       /\ ~game.sharpAction
                    THEN "FADE" ELSE "BET"
    IN  [game |-> game,
         ensemble |-> vote(Some(bayesProb), Some(side), eloProb, side,
                           rulesProb, rulesRec),
         velocity |-> analyze(<< [timestamp |-> 0, spread |-> game.spread + 10,
                                  total |-> game.total],
                                 [timestamp |-> 120, spread |-> game.spread + 5,
                                  total |-> game.total],
                                 [timestamp |-> 240, spread |-> game.spread,
                                  total |-> game.total] >>)]

\* The signal phase 3 builds for a result.  Its reasoning names the home team
\* and then "home"; "7.5-point" is no spread claim for the checker, whose
\* pattern allows only white space between the number and "point".  Its tweet
\* is "SIGNAL: <homeAbbr> <spread>", which holds a day word exactly when the
\* lower-cased abbreviation is one.
mockSignal(r) ==
    LET abbr == toLowerCase(r.game.homeAbbr) IN
    [reasoning |-> <<Team(r.game.homeTeam), Word("home")>>,
     tweetText |-> IF \E k \in DOMAIN dayPatterns : dayPatterns[k].abbr = abbr
                   THEN <<DayWord(abbr)>> ELSE << >>]

\* Phase 3: FactChecker.validate(mockSignal, r.game) for each result
verifyResults(results) ==
    [k \in DOMAIN results |-> FactChecker_validate(mockSignal(results[k]), results[k].game)]

\* Phase 4: results.filter(r => finalRecommendation is BET or STRONG_BET)
selectSignals(results) ==
    selectAt(results, {k \in DOMAIN results : shouldBet(results[k].ensemble)}, 1)

DemoInit ==
    /\ demoOptions \in [league : DemoLeagues]
    /\ demoFeed \in GameFeeds
    /\ demoPc = "reconnaissance"
    /\ demoGames = << >>
    /\ demoResults = << >>
    /\ demoValidations = << >>
    /\ demoPassCount = 0
    /\ demoSignals = << >>
    /\ demoOutput = FALSE

DemoIdle ==
    /\ demoOptions = [league |-> "nba"]
    /\ demoFeed = << >>
    /\ demoPc = "reconnaissance"
    /\ demoGames = << >>
    /\ demoResults = << >>
    /\ demoValidations = << >>
    /\ demoPassCount = 0
    /\ demoSignals = << >>
    /\ demoOutput = FALSE

\* Phase 1: the games of the league asked for.
Reconnaissance ==
    /\ demoPc = "reconnaissance"
    /\ demoGames' = reconnaissance(demoFeed, demoOptions)
    /\ demoPc' = "analysis"
    /\ UNCHANGED <<demoOptions, demoFeed, demoResults, demoValidations,
                   demoPassCount, demoSignals, demoOutput>>
    /\ UNCHANGED <<voterVars, rulesVars, loopVars, velocityVars, factVars, eloVars, temporalVars, raceVars>>

\* Phase 2, one turn of its loop: results.push for the next game.
AnalyzeGame ==
    /\ demoPc = "analysis"
    /\ Len(demoResults) < Len(demoGames)
    /\ demoResults' = Append(demoResults, analyzeGame(demoGames[Len(demoResults) + 1]))
    /\ UNCHANGED <<demoOptions, demoFeed, demoPc, demoGames, demoValidations,
                   demoPassCount, demoSignals, demoOutput>>
    /\ UNCHANGED <<voterVars, rulesVars, loopVars, velocityVars, factVars, eloVars, temporalVars, raceVars>>

\* Phase 3: every result is validated; passCount counts the ones that pass.
Verification ==
    /\ demoPc = "analysis"
    /\ Len(demoResults) = Len(demoGames)
    /\ demoValidations' = verifyResults(demoResults)
    /\ demoPassCount' = Cardinality({k \in DOMAIN demoResults :
                                        verifyResults(demoResults)[k].passed})
    /\ demoPc' = "signal"
    /\ UNCHANGED <<demoOptions, demoFeed, demoGames, demoResults,
                   demoSignals, demoOutput>>
    /\ UNCHANGED <<voterVars, rulesVars, loopVars, velocityVars, factVars, eloVars, temporalVars, raceVars>>

\* Phase 4: the actionable results become the signals.
SignalGeneration ==
    /\ demoPc = "signal"
    /\ demoSignals' = selectSignals(demoResults)
    /\ demoPc' = "output"
    /\ UNCHANGED <<demoOptions, demoFeed, demoGames, demoResults,
                   demoValidations, demoPassCount, demoOutput>>
    /\ UNCHANGED <<voterVars, rulesVars, loopVars, velocityVars, factVars, eloVars, temporalVars, raceVars>>

\* Phase 5: match cards and social posts, when there is a signal.
OutputGeneration ==
    /\ demoPc = "output"
    /\ demoOutput' = (Len(demoSignals) > 0)
    /\ demoPc' = "done"
    /\ UNCHANGED <<demoOptions, demoFeed, demoGames, demoResults,
                   demoValidations, demoPassCount, demoSignals>>
    /\ UNCHANGED <<voterVars, rulesVars, loopVars, velocityVars, factVars, eloVars, temporalVars, raceVars>>

(***************************************************************************)
(* TemporalEngine.detectScheduleSpot                                       *)
(***************************************************************************)

MaxRecentGames == 4

\* A Date is its time in hours, in a zone without clock changes, so that the
\* calendar day toDateString() names is hours \div 24.
NextGameValues == {130, 143}

\* Dates 5 days and an hour, 5 days, 4 days and an hour, and 4 days before a
\* next game at hour 130; one on the day before it; one a day after it.
GameDateValues == {9, 10, 33, 34, 100, 154}

RecentGameLists == UNION {[1..n -> GameDateValues] : n \in 0..MaxRecentGames}

toDateString(date) == date \div 24

\* recentGames.filter(d => d >= since).length
gamesSince(games, since) == Cardinality({i \in DOMAIN games : games[i] >= since})

detectScheduleSpot(games, next) ==
    LET fourDaysAgo == next - 4 * 24
        fiveDaysAgo == next - 5 * 24
        gamesInFour == gamesSince(games, fourDaysAgo)
        gamesInFive == gamesSince(games, fiveDaysAgo)
        yesterday   == next - 24
        hasB2B == \E i \in DOMAIN games :
                      toDateString(games[i]) = toDateString(yesterday)
    IN  IF gamesInFive >= 4 THEN "4_IN_5"
        ELSE IF gamesInFour >= 3 THEN "3_IN_4"
        ELSE IF hasB2B THEN "B2B" ELSE "NORMAL"

TemporalInit ==
    /\ recentGames \in RecentGameLists
    /\ nextGame \in NextGameValues
    /\ scheduleSpot = None

TemporalIdle ==
    /\ recentGames = << >>
    /\ nextGame = 130
    /\ scheduleSpot = None

\* One call of TemporalEngine.detectScheduleSpot on the drawn arguments.
DetectCall ==
    /\ scheduleSpot = None
    /\ scheduleSpot' = Some(detectScheduleSpot(recentGames, nextGame))
    /\ UNCHANGED <<recentGames, nextGame>>
    /\ UNCHANGED <<voterVars, rulesVars, loopVars, velocityVars, factVars, eloVars, demoVars, raceVars>>

(***************************************************************************)
(* Two updateElo calls on the shared table, each split between its reads   *)
(* (eloRatings.get, the ratings, eloChange) and its writes (+=, -=)        *)
(***************************************************************************)

RegisteredNames == {Celtics, Heat, Wizards}

UpdateCalls ==
    [homeTeam : RegisteredNames, awayTeam : RegisteredNames,
     homeWon : BOOLEAN, marginOfVictory : MarginValues]

\* Two calls share a team when a key of one is a key of the other
shareTeam(c, d) ==
    {lowerCase(c.homeTeam), lowerCase(c.awayTeam)}
        \cap {lowerCase(d.homeTeam), lowerCase(d.awayTeam)} # {}

\* The first half of updateElo: the two lookups, the early return (None),
\* and eloChange from the ratings as they are now.
readRatings(table, call) ==
    LET homeKey == lowerCase(call.homeTeam)
        awayKey == lowerCase(call.awayTeam)
    IN  IF ~has(table, homeKey) \/ ~has(table, awayKey) THEN None
        ELSE
          LET homeElo == get(table, homeKey).rating + HOME_ADVANTAGE * 1000
              awayElo == get(table, awayKey).rating
              expectedHome == expectedWinProbability(homeElo, awayElo)
          IN  Some(eloChangeOf(expectedHome, call.homeWon, call.marginOfVictory))

\* The second half of updateElo: += and -= on the two records, which are
\* the shared objects of the table.  lastUpdated is left out of the race.
writeRatings(table, call, eloChange) ==
    applyChange(table, lowerCase(call.homeTeam), lowerCase(call.awayTeam),
                eloChange, 0)

\* The table after the two calls one after the other, first then second
serialOrder(table, first, second) ==
    updateElo(updateElo(table, first.homeTeam, first.awayTeam, first.homeWon,
                        first.marginOfVictory, 0),
              second.homeTeam, second.awayTeam, second.homeWon,
              second.marginOfVictory, 0)

RaceInit ==
    /\ raceCalls \in {cs \in [1..2 -> UpdateCalls] : shareTeam(cs[1], cs[2])}
    /\ raceTable = initializeNbaElo
    /\ racePc = [i \in 1..2 |-> "read"]
    /\ raceChange = [i \in 1..2 |-> None]
    /\ raceOverlap = FALSE

RaceIdle ==
    /\ raceCalls = << >>
    /\ raceTable = << >>
    /\ racePc = << >>
    /\ raceChange = << >>
    /\ raceOverlap = FALSE

\* Call i looks up its two records and computes eloChange.
ReadRatings ==
    \E i \in DOMAIN racePc :
        /\ racePc[i] = "read"
        /\ raceChange' = [raceChange EXCEPT ![i] = readRatings(raceTable, raceCalls[i])]
        /\ racePc' = [racePc EXCEPT
                         ![i] = IF readRatings(raceTable, raceCalls[i]) = None
                                THEN "done" ELSE "write"]
        /\ raceOverlap' = (raceOverlap \/ racePc[3 - i] = "write")
        /\ UNCHANGED <<raceCalls, raceTable>>
        /\ UNCHANGED <<voterVars, rulesVars, loopVars, velocityVars, factVars, eloVars, demoVars, temporalVars>>

\* Call i updates its two records and returns.
WriteRatings ==
    \E i \in DOMAIN racePc :
        /\ racePc[i] = "write"
        /\ raceTable' = writeRatings(raceTable, raceCalls[i], raceChange[i][1])
        /\ racePc' = [racePc EXCEPT ![i] = "done"]
        /\ UNCHANGED <<raceCalls, raceChange, raceOverlap>>
        /\ UNCHANGED <<voterVars, rulesVars, loopVars, velocityVars, factVars, eloVars, demoVars, temporalVars>>

(***************************************************************************)
(* Specifications                                                          *)
(***************************************************************************)

VoterStart == VoterInit /\ RulesIdle /\ LoopIdle /\ VelocityIdle /\ FactIdle /\ EloIdle /\ DemoIdle /\ TemporalIdle /\ RaceIdle
VoterNext == VoteCall
VoterSpec == VoterStart /\ [][VoterNext]_vars

RulesStart == VoterIdle /\ RulesInit /\ LoopIdle /\ VelocityIdle /\ FactIdle /\ EloIdle /\ DemoIdle /\ TemporalIdle /\ RaceIdle
RulesNext == EvaluateCall
RulesSpec == RulesStart /\ [][RulesNext]_vars

LoopStart == VoterIdle /\ RulesIdle /\ LoopInit /\ VelocityIdle /\ FactIdle /\ EloIdle /\ DemoIdle /\ TemporalIdle /\ RaceIdle
LoopNext == Call \/ Generate \/ Validate
LoopSpec == LoopStart /\ [][LoopNext]_vars

\* The awaited calls of the loop resolve, and the loop then runs on.
LoopFairSpec == LoopSpec /\ WF_vars(Generate) /\ WF_vars(Validate)

VelocityStart == VoterIdle /\ RulesIdle /\ LoopIdle /\ VelocityInit /\ FactIdle /\ EloIdle /\ DemoIdle /\ TemporalIdle /\ RaceIdle
VelocityNext == AnalyzeCall
VelocitySpec == VelocityStart /\ [][VelocityNext]_vars

FactStart == VoterIdle /\ RulesIdle /\ LoopIdle /\ VelocityIdle /\ FactInit /\ EloIdle /\ DemoIdle /\ TemporalIdle /\ RaceIdle
FactNext == ValidateCall
FactSpec == FactStart /\ [][FactNext]_vars

EloStart == VoterIdle /\ RulesIdle /\ LoopIdle /\ VelocityIdle /\ FactIdle /\ EloInit /\ DemoIdle /\ TemporalIdle /\ RaceIdle
EloNext == PredictGame \/ UpdateElo
EloSpec == EloStart /\ [][EloNext]_vars

DemoStart == VoterIdle /\ RulesIdle /\ LoopIdle /\ VelocityIdle /\ FactIdle /\ EloIdle /\ DemoInit /\ TemporalIdle /\ RaceIdle
DemoNext == Reconnaissance \/ AnalyzeGame \/ Verification \/ SignalGeneration \/ OutputGeneration
DemoSpec == DemoStart /\ [][DemoNext]_vars

TemporalStart == VoterIdle /\ RulesIdle /\ LoopIdle /\ VelocityIdle /\ FactIdle /\ EloIdle /\ DemoIdle /\ TemporalInit /\ RaceIdle
TemporalNext == DetectCall
TemporalSpec == TemporalStart /\ [][TemporalNext]_vars

RaceStart == VoterIdle /\ RulesIdle /\ LoopIdle /\ VelocityIdle /\ FactIdle /\ EloIdle /\ DemoIdle /\ TemporalIdle /\ RaceInit
RaceNext == ReadRatings \/ WriteRatings
RaceSpec == RaceStart /\ [][RaceNext]_vars

(***************************************************************************)
(* Properties of EnsembleVoter.vote, stated on the arguments of the call   *)
(***************************************************************************)

\* The recommendations and probabilities of the votes the call constructs:
\* the Bayesian pair counts only when neither of the two is null.
BayesPresent(a) == a.bayesianProb # None /\ a.bayesianRec # None

ArgRecs(a) ==
    (IF BayesPresent(a) THEN <<a.bayesianRec[1]>> ELSE << >>)
    \o <<a.eloRec, a.rulesRec>>

ArgProbSum(a) ==
    (IF BayesPresent(a) THEN a.bayesianProb[1] ELSE 0) + a.eloProb + a.rulesProb

ArgCount(a, recs) ==
    Cardinality({i \in DOMAIN ArgRecs(a) : ArgRecs(a)[i] \in recs})

ArgBlocked(a) == \E i \in DOMAIN ArgRecs(a) : ArgRecs(a)[i] = "BLOCKED"

Voted == voteResult # None

\* C1: whenever one of the constructed votes (bayes, elo or rules) is BLOCKED,
\* the result is BLOCKED with consensus = true and finalProbability equal to
\* the rulesProb argument, whatever the other votes are.
C1_BlockedShortCircuit ==
    (Voted /\ ArgBlocked(voteArgs)) =>
        /\ voteResult[1].finalRecommendation = "BLOCKED"
        /\ voteResult[1].consensus = TRUE
        /\ voteResult[1].finalProbability = voteArgs.rulesProb

\* C1 witness: the Elo vote alone is BLOCKED, the two others are bet-votes
\* whose mean would give a different probability.
C1_Witness ==
    /\ Voted
    /\ voteArgs.eloRec = "BLOCKED"
    /\ voteArgs.rulesRec = "BET"
    /\ voteArgs.bayesianRec = Some("BET")
    /\ voteArgs.bayesianProb = Some(6200)
    /\ voteArgs.rulesProb = 5800
    /\ voteResult[1].finalRecommendation = "BLOCKED"

C3_BetNeedsTwoBetVotes ==
    (Voted /\ shouldBet(voteResult[1])) =>
        LET vs == voteResult[1].votes IN
        /\ Cardinality({i \in DOMAIN vs : vs[i].recommendation \in BetRecs}) >= 2
        /\ \A i \in DOMAIN vs : vs[i].recommendation # "BLOCKED"

\* C3 witness: the Bayesian vote is absent and the two remaining votes are
\* both bet-votes.
C3_Witness ==
    /\ Voted
    /\ voteArgs.bayesianProb = None
    /\ Len(voteResult[1].votes) = 2
    /\ shouldBet(voteResult[1])

ModelsOf(result) == [i \in DOMAIN result.votes |-> result.votes[i].model]

\* C17: when bayesianProb or bayesianRec is null the call does not fail and
\* result.votes is exactly [elo vote, rules vote] in that order; without a
\* BLOCKED vote the final probability is the mean of those two probabilities
\* (rounded to 3 decimals) and the counts in the agreement are over those two
\* votes.  When both are present, votes is [bayes, elo, rules].
C17_AbsentBayesSkipped ==
    Voted =>
        LET a  == voteArgs
            r  == voteResult[1]
            n  == IF BayesPresent(a) THEN 3 ELSE 2
            fp == r.finalProbability
        IN  /\ ModelsOf(r) = (IF BayesPresent(a) THEN <<"bayes", "elo", "rules">>
                                                 ELSE <<"elo", "rules">>)
            /\ r.votes[n - 1].probability = a.eloProb
            /\ r.votes[n - 1].recommendation = a.eloRec
            /\ r.votes[n].probability = a.rulesProb
            /\ r.votes[n].recommendation = a.rulesRec
            /\ BayesPresent(a) => /\ r.votes[1].probability = a.bayesianProb[1]
                                  /\ r.votes[1].recommendation = a.bayesianRec[1]
            /\ ~ArgBlocked(a) =>
                   \* fp is the multiple of 0.001 nearest to sum / n (half up)
                   /\ fp % 10 = 0
                   /\ 2 * (fp * n - ArgProbSum(a)) <= 10 * n
                   /\ 2 * (ArgProbSum(a) - fp * n) < 10 * n
                   /\ r.finalRecommendation \in {"STRONG_BET", "BET"} =>
                          r.agreement = <<"models agree BET", ArgCount(a, BetRecs), n>>
                   /\ r.finalRecommendation = "FADE" =>
                          r.agreement = <<"models agree FADE", ArgCount(a, FadeRecs), n>>

\* C17 witness: bayesianProb is given but bayesianRec is null; the two votes
\* left are bet-votes with mean 0.61 and the result counts 2 of 2 models.
C17_Witness ==
    /\ Voted
    /\ voteArgs.bayesianProb = Some(0)
    /\ voteArgs.bayesianRec = None
    /\ voteArgs.eloProb = 6000
    /\ voteArgs.rulesProb = 6200
    /\ ModelsOf(voteResult[1]) = <<"elo", "rules">>
    /\ voteResult[1].finalProbability = 6100
    /\ voteResult[1].agreement = <<"models agree BET", 2, 2>>

\* The tier of an edge |p - 0.5| and the order of the tiers.
TierOf(edge) ==
    IF edge > 1500 THEN "high" ELSE IF edge > 800 THEN "medium" ELSE "low"

TierRank(tier) == CASE tier = "low" -> 0 [] tier = "medium" -> 1 [] tier = "high" -> 2

C19_FinalProbabilityInUnitInterval ==
    Voted => /\ voteResult[1].finalProbability >= 0
             /\ voteResult[1].finalProbability <= 10000

\* C20: three votes with exactly one bet-vote and two pass-votes (such as
\* Bayes BET, Elo NEUTRAL, Rules PASS) give LEAN.
C20_OneBetTwoPassIsLean ==
    (/\ Voted
     /\ Len(voteResult[1].votes) = 3
     /\ ArgCount(voteArgs, BetRecs) = 1
     /\ ArgCount(voteArgs, PassRecs) = 2)
    => voteResult[1].finalRecommendation = "LEAN"

\* C21: whenever no two votes of a non-blocked call fall in the same
\* category (no category reaches 2 votes), vote returns PASS.
C21_DisagreementIsPass ==
    (/\ Voted
     /\ ~ArgBlocked(voteArgs)
     /\ ArgCount(voteArgs, BetRecs) < 2
     /\ ArgCount(voteArgs, PassRecs) < 2
     /\ ArgCount(voteArgs, FadeRecs) < 2)
    => voteResult[1].finalRecommendation = "PASS"

(***************************************************************************)
(* Properties of RulesEngine.evaluate                                      *)
(***************************************************************************)

Evaluated == rulesResult # None

\* C6: evaluate returns BLOCKED if and only if publicBetPct is defined and
\* greater than 70 and sharpAction is not true, for every baseProbability and
\* every value of the other context fields.
C6_BlockedIffPublicFade ==
    Evaluated =>
        (rulesResult[1].recommendation = "BLOCKED"
            <=> (/\ ctx.publicBetPct # None
                 /\ ctx.publicBetPct[1] > 70
                 /\ ctx.sharpAction # Some(TRUE)))

\* C6 witness: a blocked result for a base probability that would otherwise
\* be a BET, with sharpAction left undefined and further rules triggered.
C6_Witness ==
    /\ Evaluated
    /\ rulesResult[1].recommendation = "BLOCKED"
    /\ ctx.sharpAction = None
    /\ baseProbability = 10000
    /\ Len(rulesResult[1].violations) >= 3

\* The rules that trigger on a context, in battery order.
Triggered(c) == SelectSeq(ALL_RULES, LAMBDA rule : applyRule(rule, c) # None)

RECURSIVE AdjustmentSum(_, _)
AdjustmentSum(rules, c) ==
    IF rules = << >> THEN 0
    ELSE applyRule(Head(rules), c)[1].adjustment + AdjustmentSum(Tail(rules), c)

\* C7: for every context and base probability, adjustedProbability is
\* base + the sum of the adjustments of all triggered rules, clamped to [0,1]
\* and rounded to 3 decimals, and violations holds exactly the violations of
\* the triggered rules, one per rule, in the fixed rule order.
C7_SumClampAndKeepAll ==
    Evaluated =>
        LET r    == rulesResult[1]
            trig == Triggered(ctx)
            sum  == baseProbability + AdjustmentSum(trig, ctx)
            clamped == IF sum < 0 THEN 0 ELSE IF sum > 10000 THEN 10000 ELSE sum
        IN  /\ Len(r.violations) = Len(trig)
            /\ \A i \in DOMAIN trig : r.violations[i] = applyRule(trig[i], ctx)[1]
            /\ r.adjustedProbability = ((clamped + 5) \div 10) * 10

\* C7 witness: five rules trigger, the auto-block second, and the sum of the
\* four penalties is taken from a base with a fourth decimal.
C7_Witness ==
    /\ Evaluated
    /\ baseProbability = 5555
    /\ Len(rulesResult[1].violations) = 5
    /\ rulesResult[1].violations[2].rule = "PUBLIC_FADE"
    /\ rulesResult[1].adjustedProbability = 4260

RestCase == ctx.homeRestDays = Some(0)
            /\ ctx.awayRestDays # None /\ ctx.awayRestDays[1] >= 2

\* C8 as stated: with homeRestDays = 0 and awayRestDays >= 2 the result has a
\* violation and adjustedProbability < baseProbability for every
\* baseProbability in [0,1].
C8_RestLowersOnAllOfUnitInterval ==
    (Evaluated /\ RestCase /\ baseProbability >= 0 /\ baseProbability <= 10000) =>
        /\ Len(rulesResult[1].violations) >= 1
        /\ rulesResult[1].adjustedProbability < baseProbability

\* C8 as amended: the same for every baseProbability in (0,1]; for
\* baseProbability = 0 the clamp keeps adjustedProbability at 0.
C8_RestLowersAboveZero ==
    (Evaluated /\ RestCase /\ baseProbability >= 0 /\ baseProbability <= 10000) =>
        /\ Len(rulesResult[1].violations) >= 1
        /\ baseProbability > 0 =>
               rulesResult[1].adjustedProbability < baseProbability
        /\ baseProbability = 0 => rulesResult[1].adjustedProbability = 0

\* C8 witness: home on 0 days rest, away on 3, no other rule triggered.
C8_Witness ==
    /\ Evaluated
    /\ ctx.homeRestDays = Some(0)
    /\ ctx.awayRestDays = Some(3)
    /\ baseProbability = 5555
    /\ Len(rulesResult[1].violations) = 1
    /\ rulesResult[1].adjustedProbability = 5060

\* The probability the recommendation is taken from: base + the adjustments
\* of the triggered rules, clamped to [0,1], before the rounding.
ClampedAdjusted ==
    LET sum == baseProbability + AdjustmentSum(Triggered(ctx), ctx)
    IN  IF sum < 0 THEN 0 ELSE IF sum > 10000 THEN 10000 ELSE sum

AutoBlocked == \E i \in DOMAIN Triggered(ctx) :
                  applyRule(Triggered(ctx)[i], ctx)[1].severity = "auto-pass"

\* C23: without an auto-block violation the recommendation follows the
\* clamped adjusted probability p: BET for p >= 0.58, LEAN for
\* 0.54 <= p < 0.58, FADE for p <= 0.42, PASS in between (the boundaries
\* 0.58, 0.54 and 0.42 belong to BET, LEAN and FADE); evaluate never returns
\* STRONG_BET.
C23_RecommendationBands ==
    Evaluated =>
        LET p == ClampedAdjusted
            rec == rulesResult[1].recommendation
        IN  /\ rec # "STRONG_BET"
            /\ ~AutoBlocked =>
                  /\ p >= 5800 => rec = "BET"
                  /\ (p >= 5400 /\ p < 5800) => rec = "LEAN"
                  /\ p <= 4200 => rec = "FADE"
                  /\ (p > 4200 /\ p < 5400) => rec = "PASS"

\* C23 witness: penalties take 0.56 down to exactly 0.42, which is a FADE.
C23_Witness ==
    /\ Evaluated
    /\ ~AutoBlocked
    /\ baseProbability = 5600
    /\ ClampedAdjusted = 4200
    /\ rulesResult[1].recommendation = "FADE"

\* The rules of the violations of the result
ViolatedRules ==
    {rulesResult[1].violations[i].rule : i \in DOMAIN rulesResult[1].violations}

\* C28: every violation's adjustment is <= 0, for the home and for the away
\* side; a TRAVEL_B2B violation and a schedule-spot violation are never in
\* the same result, and there are at most 5 violations; and for every context
\* and every baseProbability in [0,1], adjustedProbability lies between
\* max(0, baseProbability - 0.14) and baseProbability, up to the rounding to
\* 3 decimals (half a thousandth), and is the rounded baseProbability when no
\* rule triggers.
C28_PenaltiesOnlyAndBounded ==
    Evaluated =>
        LET r == rulesResult[1] IN
        /\ \A i \in DOMAIN r.violations : r.violations[i].adjustment <= 0
        /\ ~("TRAVEL_B2B" \in ViolatedRules
             /\ ViolatedRules \cap {"SCHEDULE_3_IN_4", "SCHEDULE_4_IN_5"} # {})
        /\ Len(r.violations) <= 5
        /\ (baseProbability >= 0 /\ baseProbability <= 10000) =>
               /\ r.adjustedProbability <= baseProbability + 5
               /\ r.adjustedProbability >= baseProbability - 1400 - 5
               /\ r.adjustedProbability >= 0
               /\ Len(r.violations) = 0 =>
                      /\ r.adjustedProbability >= baseProbability - 4
                      /\ r.adjustedProbability % 10 = 0

\* C28 witness: five rules trigger, among them both sides' penalties
\* (the home team's rest, the away team's travel), and the probability
\* comes down by the full 0.14.
C28_Witness ==
    /\ Evaluated
    /\ baseProbability = 5600
    /\ Len(rulesResult[1].violations) = 5
    /\ "TRAVEL_B2B" \in ViolatedRules
    /\ \E i \in DOMAIN rulesResult[1].violations : rulesResult[1].violations[i].team = "home"
    /\ rulesResult[1].adjustedProbability = 4200

(***************************************************************************)
(* Properties of VelocityTracker.analyze                                   *)
(***************************************************************************)

Analyzed == velocityResult # None

\* The time between the earliest and the latest snapshot, in minutes.
SpanMinutes(snaps) ==
    LET ts == {snaps[i].timestamp : i \in DOMAIN snaps} IN
    (CHOOSE t \in ts : \A u \in ts : u <= t) - (CHOOSE t \in ts : \A u \in ts : t <= u)

TooLittleData(snaps) == Len(snaps) < 2 \/ SpanMinutes(snaps) < 6

\* C14: analyze returns the no-data result (all five numbers 0, no steam
\* move, steamDirection null, no late movement) whenever there are fewer
\* than 2 snapshots or the earliest and latest are less than 0.1 hour apart,
\* and a result with hoursTracked = 0 is returned in those cases only.
C14_NoDataResult ==
    Analyzed =>
        LET r == velocityResult[1] IN
        /\ TooLittleData(snapshots) =>
               /\ r.spreadVelocity = 0 /\ r.totalVelocity = 0
               /\ r.spreadMoved = 0 /\ r.totalMoved = 0 /\ r.hoursTracked = 0
               /\ r.isSteamMove = FALSE
               /\ r.steamDirection = None
               /\ r.lateMovement = FALSE
        /\ r.hoursTracked = 0 => TooLittleData(snapshots)

\* C14 witness: three snapshots, passed out of time order, whose earliest and
\* latest are 5 minutes apart and differ in spread and total: no-data result.
C14_Witness ==
    /\ Analyzed
    /\ Len(snapshots) = 3
    /\ snapshots[1].timestamp = 5 /\ snapshots[3].timestamp = 0
    /\ snapshots[1].spread = -45 /\ snapshots[3].spread = -30
    /\ snapshots[1].total # snapshots[3].total
    /\ velocityResult[1] = noDataResult

\* analyze "with data": the call returned and did not take the no-data exit
HasData == Analyzed /\ ~TooLittleData(snapshots)

\* The earliest and the latest snapshot, as the sorted copy orders them
EarliestSnapshot == sortByTimestamp(snapshots)[1]
LatestSnapshot == sortByTimestamp(snapshots)[Len(snapshots)]

\* |moved| / hours >= 0.5 with moved in tenths of a point and the span in
\* minutes: 12 |moved| >= minutes.
ReachesSteam(moved) == 12 * Abs(moved) >= SpanMinutes(snapshots)

\* C24: with data, isSteamMove is true exactly when the absolute spread
\* velocity or the absolute total velocity is at least 0.5 points per hour;
\* when the spread reaches it the direction is HOME (positive) or AWAY
\* (negative), whatever the total does; when only the total reaches it the
\* direction is OVER (positive) or UNDER (negative); steamDirection is null
\* exactly when isSteamMove is false.
C24_SteamBySpreadThenTotal ==
    HasData =>
        LET r == velocityResult[1]
            spreadMoved == LatestSnapshot.spread - EarliestSnapshot.spread
            totalMoved  == LatestSnapshot.total - EarliestSnapshot.total
        IN  /\ r.isSteamMove <=> (ReachesSteam(spreadMoved) \/ ReachesSteam(totalMoved))
            /\ ReachesSteam(spreadMoved) =>
                   r.steamDirection = Some(IF spreadMoved > 0 THEN "HOME" ELSE "AWAY")
            /\ (~ReachesSteam(spreadMoved) /\ ReachesSteam(totalMoved)) =>
                   r.steamDirection = Some(IF totalMoved > 0 THEN "OVER" ELSE "UNDER")
            /\ r.steamDirection = None <=> ~r.isSteamMove

\* C24 witness: spread and total both move half a point in exactly one hour,
\* so both are at the threshold, and the direction is the spread's.
C24_Witness ==
    /\ Analyzed
    /\ snapshots = << [timestamp |-> 66, spread |-> -25, total |-> 2205],
                      [timestamp |-> 6, spread |-> -30, total |-> 2200] >>
    /\ velocityResult[1].isSteamMove
    /\ velocityResult[1].steamDirection = Some("HOME")

\* The snapshots within the late window: not more than 2 hours older than
\* the latest one.
InLateWindow == {i \in DOMAIN snapshots :
                    snapshots[i].timestamp >= LatestSnapshot.timestamp - 120}

\* The earliest snapshot of the late window, as the sorted copy orders them
EarliestInWindow ==
    LET sorted == sortByTimestamp(snapshots)
        k == CHOOSE k \in DOMAIN sorted :
                 /\ sorted[k].timestamp >= LatestSnapshot.timestamp - 120
                 /\ \A j \in 1..(k - 1) :
                        sorted[j].timestamp < LatestSnapshot.timestamp - 120
    IN  sorted[k]

C25_SteamWithoutLate ==
    /\ Analyzed
    /\ velocityResult[1].isSteamMove
    /\ ~velocityResult[1].lateMovement

\* The lists with the same snapshots as the call's argument, in any order
Reorderings(list) ==
    {[i \in DOMAIN list |-> list[p[i]]] :
        p \in {q \in [DOMAIN list -> DOMAIN list] :
                  \A i, j \in DOMAIN list : q[i] = q[j] => i = j}}

\* Snapshots with the same timestamp have the same spread and total
TiesAgree(list) ==
    \A i, j \in DOMAIN list :
        list[i].timestamp = list[j].timestamp => list[i] = list[j]

\* C30 as stated: every permutation of the snapshots passed yields the same
\* VelocityAnalysis, also when several snapshots carry the same timestamp.
C30_OrderIndependent ==
    Analyzed => \A other \in Reorderings(snapshots) : analyze(other) = velocityResult[1]

\* C30 as amended: every permutation of the snapshots passed yields the same
\* VelocityAnalysis when the snapshots that carry the same timestamp also
\* carry the same spread and total.
C30_OrderIndependentWhenTiesAgree ==
    (Analyzed /\ TiesAgree(snapshots)) =>
        \A other \in Reorderings(snapshots) : analyze(other) = velocityResult[1]

\* C30 witness: three snapshots of different times, passed latest first; the
\* analysis is that of the 2.1 hours from the earliest to the latest.
C30_Witness ==
    /\ Analyzed
    /\ Len(snapshots) = 3
    /\ snapshots[1].timestamp = 126
    /\ snapshots[2].timestamp = 0
    /\ snapshots[3].timestamp = 6
    /\ snapshots[1].spread # snapshots[2].spread
    /\ velocityResult[1].hoursTracked = 21
    /\ velocityResult[1].spreadMoved = snapshots[1].spread - snapshots[2].spread

(***************************************************************************)
(* Properties of FactChecker.validate                                      *)
(***************************************************************************)

FactChecked == factResult # None

FactText == factSignal.reasoning \o factSignal.tweetText

IssueLabels(result) == [i \in DOMAIN result.issues |-> result.issues[i].label]

HasIssue(result, label, about) ==
    \E i \in DOMAIN result.issues :
        result.issues[i].label = label /\ result.issues[i].args[1] = about

\* The conditions a text can violate.  A spread, ppg or percentage claim is
\* the first such claim of the text the check reads.
FirstSpreadClaim ==
    IF firstMatch(factSignal.reasoning, "spread") # None
    THEN firstMatch(factSignal.reasoning, "spread")
    ELSE firstMatch(factSignal.tweetText, "spread")

SpreadMismatch ==
    /\ FirstSpreadClaim # None
    /\ Abs(Abs(FirstSpreadClaim[1].value) - Abs(factGame.spread)) > 5

AwayAsHome == nameThenWord(FactText, factGame.awayTeam, "home")

HomeAsAway == \/ nameThenWord(FactText, factGame.homeTeam, "road")
              \/ nameThenWord(FactText, factGame.homeTeam, "away")

WrongDays ==
    {k \in DOMAIN dayPatterns :
        /\ dayPatterns[k].day # factGame.dayOfWeek
        /\ \E i \in DOMAIN factSignal.tweetText :
               /\ factSignal.tweetText[i].kind = "day"
               /\ factSignal.tweetText[i].value \in {dayPatterns[k].day, dayPatterns[k].abbr}}

PpgAbove45 ==
    /\ firstMatch(factSignal.reasoning, "ppg") # None
    /\ firstMatch(factSignal.reasoning, "ppg")[1].value > 45

WinPctAbove100 ==
    /\ firstMatch(factSignal.reasoning, "winpct") # None
    /\ firstMatch(factSignal.reasoning, "winpct")[1].value > 100

\* C15 as stated: the issue list holds one issue for every violated condition
\* among spread mismatch, away team described as home, home team described
\* as away / road, weekday mismatch, ppg claim above 45 and win percentage
\* above 100; passed is true exactly when the list is empty.
C15_IssueForEveryCondition ==
    FactChecked =>
        LET r == factResult[1] IN
        /\ SpreadMismatch => HasIssue(r, "Spread mismatch", FirstSpreadClaim[1].value)
        /\ AwayAsHome => HasIssue(r, "Team location error", factGame.awayTeam)
        /\ HomeAsAway => HasIssue(r, "Team location error", factGame.homeTeam)
        /\ \A k \in WrongDays : HasIssue(r, "Date mismatch", dayPatterns[k].day)
        /\ PpgAbove45 =>
               HasIssue(r, "Implausible stat", firstMatch(factSignal.reasoning, "ppg")[1].value)
        /\ WinPctAbove100 =>
               HasIssue(r, "Invalid percentage",
                        firstMatch(factSignal.reasoning, "winpct")[1].value)
        /\ r.passed <=> r.issues = << >>

\* C15 as amended: validate runs all four checks and collects, in check
\* order, the issue of every check that reports one, not only of the first
\* such check; each check reports at most one issue, its first finding:
\* the team check reports the away team as home before anything about the
\* home team, the statistics check a ppg claim above 45 before a win
\* percentage above 100.  passed is true exactly when the list is empty.
C15_OneIssuePerFailingCheck ==
    FactChecked =>
        LET r == factResult[1]
            teamFinding == AwayAsHome \/ HomeAsAway \/ hasWord(FactText, "away")
            expected ==
                (IF SpreadMismatch THEN <<"Spread mismatch">> ELSE << >>)
                \o (IF teamFinding THEN <<"Team location error">> ELSE << >>)
                \o (IF WrongDays # {} THEN <<"Date mismatch">> ELSE << >>)
                \o (IF PpgAbove45 THEN <<"Implausible stat">>
                    ELSE IF WinPctAbove100 THEN <<"Invalid percentage">> ELSE << >>)
        IN  /\ IssueLabels(r) = expected
            /\ AwayAsHome => HasIssue(r, "Team location error", factGame.awayTeam)
            /\ (teamFinding /\ ~AwayAsHome) =>
                   HasIssue(r, "Team location error", factGame.homeTeam)
            /\ r.passed <=> r.issues = << >>

\* C15 witness: a reasoning with a wrong spread, a 55 ppg claim and a 120%
\* win claim, and a tweet naming the wrong day: three issues, one per failing
\* check, the percentage not among them.
C15_Witness ==
    /\ FactChecked
    /\ factGame.spread = -75
    /\ factSignal.reasoning = <<SpreadClaim(30), PpgClaim(55), WinPctClaim(120)>>
    /\ factSignal.tweetText = <<DayWord("sunday")>>
    /\ IssueLabels(factResult[1]) = <<"Spread mismatch", "Date mismatch", "Implausible stat">>
    /\ ~factResult[1].passed

\* C16: validate reports a team-location issue, and passed = false, when the
\* text has the away team's full name followed by 'home' or the home team's
\* full name followed by 'road' or 'away', and only then.
C16_TeamIssueIffLocationClaim ==
    FactChecked =>
        LET r == factResult[1]
            teamIssue == \E i \in DOMAIN r.issues : r.issues[i].label = "Team location error"
        IN  /\ teamIssue <=> (AwayAsHome \/ HomeAsAway)
            /\ teamIssue => ~r.passed

(***************************************************************************)
(* Properties of the Elo model                                             *)
(***************************************************************************)

\* The last three calls were predictGame(A, B), updateElo(A, B, true, m) and
\* predictGame(A, B); eloFirst holds the first result, eloCall the second.
Repredicted == eloCall.op = "predictGame" /\ eloFirst # None

Registered(name) == has(eloRatings, lowerCase(name))

\* C12 as stated: for any names A and B and any margin, the second
\* predictedHomeWinProb of predictGame(A, B); updateElo(A, B, true, margin);
\* predictGame(A, B) is strictly higher than the first.
C12_SecondPredictionHigher ==
    Repredicted =>
        eloCall.result.predictedHomeWinProb > eloFirst[1].predictedHomeWinProb

\* C12 as amended: when A and B, lower-cased, are two different keys of the
\* table, the second prediction rates the home team strictly higher and the
\* away team strictly lower than the first, and its predictedHomeWinProb is
\* not lower (strictly higher unless the rounding to 3 decimals hides the
\* rise).  When either name is not a key once lower-cased (a name predictGame
\* resolves by substring match or by the default rating), or A and B are the
\* same team, the second prediction equals the first.
C12_HigherForRegisteredPair ==
    Repredicted =>
        LET A == eloCall.homeTeam
            B == eloCall.awayTeam
            first == eloFirst[1]
            second == eloCall.result
        IN  IF Registered(A) /\ Registered(B) /\ lowerCase(A) # lowerCase(B)
            THEN /\ second.homeElo > first.homeElo
                 /\ second.awayElo < first.awayElo
                 /\ second.predictedHomeWinProb >= first.predictedHomeWinProb
            ELSE second = first

\* C12 witness: Celtics (home) beat Wizards; the second prediction for that
\* game gives the home team a strictly higher probability.
C12_Witness ==
    /\ Repredicted
    /\ eloCall.homeTeam = Celtics
    /\ eloCall.awayTeam = Wizards
    /\ eloFirst[1].predictedHomeWinProb = 8760
    /\ eloCall.result.predictedHomeWinProb > 8760

\* C13: a call of updateElo in which the lower-cased name of either team is
\* not a key of the table leaves the whole table as it is: no rating, games
\* counter or lastUpdated changes, also not for the other team.
C13_UnregisteredIsNoOp ==
    [][(/\ eloNow' # eloNow
        /\ eloCall'.op = "updateElo"
        /\ \/ ~has(eloRatings, lowerCase(eloCall'.homeTeam))
           \/ ~has(eloRatings, lowerCase(eloCall'.awayTeam)))
       => eloRatings' = eloRatings]_vars

\* C13 witness: updateElo('Boston Celtics', 'Wizards', true, m) has returned,
\* after an update that went through, and the table is what that first
\* update left.
C13_Witness ==
    /\ eloCall.op = "updateElo"
    /\ eloCall.homeTeam = BostonCeltics
    /\ eloCall.awayTeam = Wizards
    /\ eloCall.homeWon
    /\ eloNow = 2
    /\ get(eloRatings, lowerCase(Wizards)).games = 1
    /\ get(eloRatings, lowerCase(Wizards)).lastUpdated = 1

\* The sum of all ratings of a table
RECURSIVE RatingSum(_)
RatingSum(table) ==
    IF table = << >> THEN 0
    ELSE table[1].value.rating + RatingSum(Tail(table))

\* C29: every updateElo call on two different registered teams adds
\* eloChange to the home rating and takes the same amount from the away
\* rating, increments the games counter of each of the two by exactly 1 and
\* leaves every other record as it is; and after any sequence of calls the
\* sum of all ratings is the sum right after initialization.
C29_RatingMassConserved ==
    /\ [](RatingSum(eloRatings) = RatingSum(initializeNbaElo))
    /\ [][LET h == lowerCase(eloCall'.homeTeam)
              a == lowerCase(eloCall'.awayTeam)
          IN  (/\ eloNow' # eloNow
               /\ has(eloRatings, h) /\ has(eloRatings, a) /\ h # a)
              =>
              LET eloChange ==
                      eloChangeOf(
                          expectedWinProbability(
                              get(eloRatings, h).rating + HOME_ADVANTAGE * 1000,
                              get(eloRatings, a).rating),
                          eloCall'.homeWon, eloCall'.marginOfVictory)
              IN  /\ get(eloRatings', h).rating = get(eloRatings, h).rating + eloChange
                  /\ get(eloRatings', a).rating = get(eloRatings, a).rating - eloChange
                  /\ get(eloRatings', h).games = get(eloRatings, h).games + 1
                  /\ get(eloRatings', a).games = get(eloRatings, a).games + 1
                  /\ \A i \in DOMAIN eloRatings :
                         eloRatings[i].key \notin {h, a} => eloRatings'[i] = eloRatings[i]
                  /\ Len(eloRatings') = Len(eloRatings)]_vars

\* C29 witness: two updates of Celtics against Wizards went through; both
\* ratings moved, the third team's record did not.
C29_Witness ==
    /\ eloNow = 2
    /\ get(eloRatings, lowerCase(Celtics)).games = 2
    /\ get(eloRatings, lowerCase(Wizards)).games = 2
    /\ get(eloRatings, lowerCase(Celtics)).rating # 1650 * 1000
    /\ get(eloRatings, lowerCase(Heat)) = get(initializeNbaElo, lowerCase(Heat))
    /\ RatingSum(eloRatings) = (1650 + 1520 + 1410) * 1000

(***************************************************************************)
(* Properties of the verification loop                                     *)
(***************************************************************************)

Generates == {i \in DOMAIN trace : trace[i].op = "generate"}
Validates == {i \in DOMAIN trace : trace[i].op = "validate"}

\* C9: the call returns an artifact only if the last thing it did was a
\* validation of that same artifact that passed; if every validation of the
\* call failed it returns null, so no artifact that failed its final
\* validation is released.
C9_OnlyValidatedReleased ==
    pc = "done" =>
        /\ returned # None =>
               /\ trace # << >>
               /\ trace[Len(trace)].op = "validate"
               /\ trace[Len(trace)].passed
               /\ trace[Len(trace)].signal = returned[1]
               /\ returned[1].defects = {}
        /\ (\A i \in Validates : ~trace[i].passed) => returned = None

\* C9 witness: two attempts failed validation, the third passed and is the
\* artifact returned.
C9_Witness ==
    /\ pc = "done"
    /\ returned # None
    /\ Len(trace) = 6
    /\ returned[1].attempt = 2

\* The generate / validate history of a call is well formed: at most 3
\* generates; events alternate, each validate being of the signal generated
\* just before it; only the last validate can have passed; and the call is
\* over exactly after a passed validate (returning that signal) or after the
\* 3rd failed one (returning null).
LoopTraceOk ==
    /\ Cardinality(Generates) <= 3
    /\ \A i \in DOMAIN trace :
           /\ trace[i].op = (IF i % 2 = 1 THEN "generate" ELSE "validate")
           /\ i % 2 = 0 => trace[i].signal = trace[i - 1].signal
           /\ (i \in Validates /\ i < Len(trace)) => ~trace[i].passed
    /\ pc = "generate" => Len(trace) % 2 = 0
    /\ pc = "validate" => Len(trace) % 2 = 1
    /\ pc = "done" =>
           /\ Len(trace) > 0
           /\ trace[Len(trace)].op = "validate"
           /\ \/ trace[Len(trace)].passed /\ returned = Some(trace[Len(trace)].signal)
              \/ /\ ~trace[Len(trace)].passed
                 /\ Cardinality(Generates) = 3
                 /\ returned = None
    /\ (Len(trace) > 0 /\ trace[Len(trace)].op = "validate"
            /\ (trace[Len(trace)].passed \/ Cardinality(Generates) = 3))
           => pc = "done"

\* C10: per game the loop makes at most 3 generate calls, each followed by
\* exactly one validate of its output before any further generate, stops at
\* the first passing validation, and always terminates: with a validated
\* artifact, or with null after the 3rd failed validation.
C10_BoundedSequentialTerminating ==
    /\ []LoopTraceOk
    /\ (pc \in {"generate", "validate"}) ~> (pc = "done")

\* C10 witness: the retry budget is used up: 3 generates, 3 failed
\* validations, null returned.
C10_Witness ==
    /\ pc = "done"
    /\ returned = None
    /\ Cardinality(Generates) = 3
    /\ Cardinality(Validates) = 3
    /\ \A i \in Validates : ~trace[i].passed

IssueSet(seq) == {seq[i] : i \in DOMAIN seq}

\* C11 as stated: every generation is given the accumulated issues, those of
\* all earlier failed validations of the game and not only of the most recent
\* one; the first generation is given an empty list.
C11_AccumulatedIssueContext ==
    \A i \in Generates :
        IssueSet(trace[i].previousIssues)
            = UNION {trace[j].signal.defects :
                        j \in {k \in Validates : k < i /\ ~trace[k].passed}}

\* C11 as amended: every regeneration is given exactly the issue list of the
\* most recent failed validation (the one just before it), whatever earlier
\* validations found; the first generation is given an empty list.
C11_LastIssuesOnly ==
    \A i \in Generates :
        /\ i = 1 => trace[i].previousIssues = << >>
        /\ i > 1 => /\ trace[i - 1].op = "validate"
                    /\ ~trace[i - 1].passed
                    /\ trace[i].previousIssues = validate(trace[i - 1].signal).issues

\* C11 witness: the third generation, after a first validation that found a
\* spread issue and a second that found only a team issue, is given the team
\* issue alone.
C11_Witness ==
    /\ Len(trace) >= 5
    /\ trace[2].signal.defects = {"spread"}
    /\ trace[4].signal.defects = {"teams"}
    /\ trace[5].op = "generate"
    /\ trace[5].previousIssues = <<"teams">>

(***************************************************************************)
(* Properties of the demo workflow runDemo                                 *)
(***************************************************************************)

\* The positions k of results whose result is among the signals
SignalPositions == {k \in DOMAIN demoResults :
                       \E i \in DOMAIN demoSignals : demoSignals[i] = demoResults[k]}

Detected == scheduleSpot # None

\* The number of recent games dated within the hours-long window that ends
\* at the next game.
InTrailingWindow(hours) ==
    Cardinality({i \in DOMAIN recentGames :
                    recentGames[i] >= nextGame - hours /\ recentGames[i] <= nextGame})

PlayedDayBefore ==
    \E i \in DOMAIN recentGames : recentGames[i] \div 24 = (nextGame \div 24) - 1

\* C26: the result is 4_IN_5 if at least 4 recent games are dated inside the
\* 5 days that end at nextGame, otherwise 3_IN_4 if at least 3 are dated
\* inside the 4 days that end at nextGame, otherwise B2B if a game fell on the
\* calendar day before nextGame, otherwise NORMAL; it is never TRAVEL_B2B.
C26_ScheduleSpotByTrailingWindows ==
    Detected =>
        /\ scheduleSpot[1] # "TRAVEL_B2B"
        /\ scheduleSpot[1] =
               IF InTrailingWindow(5 * 24) >= 4 THEN "4_IN_5"
               ELSE IF InTrailingWindow(4 * 24) >= 3 THEN "3_IN_4"
               ELSE IF PlayedDayBefore THEN "B2B"
               ELSE "NORMAL"

(***************************************************************************)
(* Properties of two updateElo calls on the shared table                   *)
(***************************************************************************)

BothReturned == \A i \in DOMAIN racePc : racePc[i] = "done"

\* The tables the two calls leave when run one after the other
SerialOutcomes ==
    {serialOrder(initializeNbaElo, raceCalls[1], raceCalls[2]),
     serialOrder(initializeNbaElo, raceCalls[2], raceCalls[1])}

====
